---------------------------- MODULE Spec2Model ----------------------------
(***************************************************************************)
(* The bug-tracking backend.  Authentication: AuthService                  *)
(* (src/src/services/auth_service.py) over the users, user_sessions and    *)
(* token_blacklist tables, with the token codec of src/src/utils/security. *)
(* Authorization: PermissionService (src/src/services/permission_service)  *)
(* and the project, issue and comment handlers over the projects, issues  *)
(* and comments tables.                                                    *)
(*                                                                         *)
(* Time is a discrete clock `now` (datetime.utcnow()); every handler runs   *)
(* as one step at the current clock value and the clock advances between   *)
(* handlers.  Optional[datetime] columns are sequences of length <= 1      *)
(* (<< >> is None).  A table is the set of its rows; a unique constraint   *)
(* is enforced when the handler commits.  Requests that overlap are the    *)
(* rows of `tasks`: each holds the rows its own database session has       *)
(* loaded and is resumed at its next await.                                *)
(***************************************************************************)
EXTENDS Integers, Sequences, FiniteSets, TLC

VARIABLES now, users, sessions, blacklist, tokens, nextJti, last, streak,
          projects, issues, comments, tasks

vars == <<now, users, sessions, blacklist, tokens, nextJti, last, streak,
          projects, issues, comments, tasks>>

\* the tables of the tracker, which no authentication handler touches
tracker == <<projects, issues, comments>>

---------------------------------------------------------------------------
(* Bounds of the model.  The settings of Settings (src/src/app/config.py)  *)
(* are configurable through the environment; they are scaled to clock      *)
(* ticks here.                                                             *)

\* last clock value explored
MaxTime == 2
\* number of token identifiers (uuid4 values) that may be drawn
MaxJti == 4
\* number of requests that may be in progress at the same time
MaxTasks == 2
\* settings.max_login_attempts (MAX_LOGIN_ATTEMPTS, default 5)
max_login_attempts == 2
\* settings.account_lockout_duration_minutes, in ticks
account_lockout_duration == 1
\* settings.jwt_access_token_expire_minutes, in ticks
jwt_access_token_expire == 1
\* settings.jwt_refresh_token_expire_days, in ticks
jwt_refresh_token_expire == 2

---------------------------------------------------------------------------
(* Values *)

None == << >>

Some(x) == <<x>>

\* registration requests (UserRegister): username, email, password, role
Registrations ==
    { [username |-> "alice", email |-> "a@x", password |-> "s1", role |-> "developer"],
      [username |-> "bob",   email |-> "b@x", password |-> "s2", role |-> "manager"],
      [username |-> "alice", email |-> "b@x", password |-> "s1", role |-> "admin"] }

Emails == {"a@x", "b@x", "c@x"}

Passwords == {"s1", "s2"}

\* bcrypt: the digest is bound to the plain text (salt left out)
hash_password(password) == <<"bcrypt", password>>

verify_password(plain_password, hashed_password) ==
    hashed_password = <<"bcrypt", plain_password>>

\* a row of the users table as User(...) constructs it (column defaults)
User(username, email, password_hash, role) ==
    [username |-> username, email |-> email, password_hash |-> password_hash,
     role |-> role, is_active |-> TRUE, failed_login_attempts |-> 0,
     locked_until |-> None, last_login |-> None]

\* an account that an administrator has deactivated in the database
InactiveUser ==
    [User("bob", "b@x", hash_password("s2"), "manager") EXCEPT !.is_active = FALSE]

\* a row of user_sessions
UserSession(user_id, refresh_token_jti, expires_at) ==
    [user_id |-> user_id, refresh_token_jti |-> refresh_token_jti,
     expires_at |-> expires_at]

\* a row of token_blacklist
TokenBlacklist(jti, token_type, expires_at) ==
    [jti |-> jti, token_type |-> token_type, expires_at |-> expires_at]

\* the outcome of the latest handler call: its name, the exception kind
\* ("ok" when it returned) with its message, the arguments, the clock value
\* of the call (None when not recorded), the account row login_user read
\* before it acted (None when none was read) and what the call returned
Result(op, kind, detail, args, at, pre, out) ==
    [op |-> op, kind |-> kind, detail |-> detail, args |-> args, at |-> at,
     pre |-> pre, out |-> out]

\* the requests in progress: a request that is not running holds nothing
Tasks == 1..MaxTasks

IdleTask == [pc |-> "idle", args |-> << >>, loaded |-> None, edited |-> None,
             out |-> << >>]

NoTasks == [t \in Tasks |-> IdleTask]

\* the outcome of the latest call of a token handler: the same record, with
\* the arguments and the time of the call left unrecorded
Outcome(op, kind, detail, out) ==
    Result(op, kind, detail, << >>, None, None, out)

---------------------------------------------------------------------------
(* Token codec (src/src/utils/security.py) *)

\* the claims of a token; sig is whether the RS256 signature verifies
\* against the service's public key
Token(sub, role, exp, jti, type) ==
    [sub |-> sub, role |-> role, exp |-> exp, jti |-> jti, type |-> type,
     sig |-> TRUE]

create_access_token(user_id, role, jti, t) ==
    Token(user_id, role, t + jwt_access_token_expire, jti, "access")

create_refresh_token(user_id, role, jti, t) ==
    Token(user_id, role, t + jwt_refresh_token_expire, jti, "refresh")

\* (variant: an expired token is reported like any other invalid token)
decode_token_Generic(token, t) ==
    IF ~token.sig \/ token.exp <= t
    THEN [kind |-> "Unauthorized", detail |-> "Invalid token",
          payload |-> token]
    ELSE [kind |-> "ok", detail |-> "", payload |-> token]

\* (variant: the expiry claim is not verified)
decode_token_NoExpiry(token, t) ==
    IF ~token.sig
    THEN [kind |-> "Unauthorized", detail |-> "Invalid token",
          payload |-> token]
    ELSE [kind |-> "ok", detail |-> "", payload |-> token]

\* decode_token: the signature is verified first, then exp (jwt.decode);
\* detail is the message of the exception raised
decode_token(token, t) ==
    IF ~token.sig
    THEN [kind |-> "Unauthorized", detail |-> "Invalid token",
          payload |-> token]
    ELSE IF token.exp <= t
    THEN [kind |-> "TokenExpired", detail |-> "Token has expired",
          payload |-> token]
    ELSE [kind |-> "ok", detail |-> "", payload |-> token]

\* a token signed with a key that is not the service's: the attacker picks
\* the claims (first account, admin role, never expiring, unused identifier)
Forged ==
    [Token(1, "admin", MaxTime + 1, 0, "access") EXCEPT !.sig = FALSE]

\* what a client can present: the tokens the service issued, and the forgery
Presentable == tokens \cup {Forged}

---------------------------------------------------------------------------
(* Table queries *)

UserIds == DOMAIN users

\* select(User).where(User.email == email) ... scalar_one_or_none()
UserByEmail(email) == {i \in UserIds : users[i].email = email}

UserByUsername(username) == {i \in UserIds : users[i].username = username}

\* select(UserSession).where(UserSession.user_id == user_id) ... all()
SessionsOf(user_id) == {x \in sessions : x.user_id = user_id}

\* is_token_blacklisted
is_token_blacklisted(jti) ==
    \E b \in blacklist : b.jti = jti

\* (variant: the comparison of the lock with the clock reversed)
IsLocked_Reversed(user, t) ==
    Len(user.locked_until) > 0 /\ user.locked_until[1] < t

\* login_user: "if user.locked_until and user.locked_until > datetime.utcnow()"
IsLocked(user, t) ==
    Len(user.locked_until) > 0 /\ user.locked_until[1] > t

---------------------------------------------------------------------------
(* State *)

\* the accounts of a database that was populated before the service started
SeededUsers ==
    { <<User("alice", "a@x", hash_password("s1"), "developer"), second>> :
        second \in {InactiveUser, [InactiveUser EXCEPT !.is_active = TRUE]} }

Fresh(initial_users) ==
    /\ now = 0
    /\ users \in initial_users
    /\ sessions = {}
    /\ blacklist = {}
    /\ tokens = {}
    /\ nextJti = 1
    /\ last = Result("init", "ok", "", << >>, None, None, << >>)
    /\ streak = [e \in Emails |-> 0]
    /\ tasks = NoTasks
    /\ projects = << >>
    /\ issues = << >>
    /\ comments = << >>

\* an empty database, or one holding a deactivated account
Init == Fresh({<< >>, <<InactiveUser>>})

\* a populated database
InitToken == Fresh(SeededUsers)

\* a populated database in which the second account logged in at time 0 and
\* may have been deactivated by an administrator since: its session and the
\* tokens of that login are outstanding
InitGate ==
    /\ now = 0
    /\ users \in { <<first, [second EXCEPT !.last_login = Some(0)]>> :
                      <<first, second>> \in SeededUsers }
    /\ sessions = {UserSession(2, 2, jwt_refresh_token_expire)}
    /\ blacklist = {}
    /\ tokens = {create_access_token(2, "manager", 1, 0),
                 create_refresh_token(2, "manager", 2, 0)}
    /\ nextJti = 3
    /\ last = Result("init", "ok", "", << >>, None, None, << >>)
    /\ streak = [e \in Emails |-> 0]
    /\ tasks = NoTasks
    /\ projects = << >>
    /\ issues = << >>
    /\ comments = << >>

\* a populated database in which the second account logged in as a manager
\* at time 0 and an administrator may have changed its role since: the
\* tokens of that login carry the role of the time of the login
InitRole ==
    /\ now = 0
    /\ users \in { <<User("alice", "a@x", hash_password("s1"), "developer"),
                     [User("bob", "b@x", hash_password("s2"), role)
                        EXCEPT !.last_login = Some(0)]>> :
                      role \in {"developer", "manager", "admin"} }
    /\ sessions = {UserSession(2, 2, jwt_refresh_token_expire)}
    /\ blacklist = {}
    /\ tokens = {create_access_token(2, "manager", 1, 0),
                 create_refresh_token(2, "manager", 2, 0)}
    /\ nextJti = 3
    /\ last = Result("init", "ok", "", << >>, None, None, << >>)
    /\ streak = [e \in Emails |-> 0]
    /\ tasks = NoTasks
    /\ projects = << >>
    /\ issues = << >>
    /\ comments = << >>

\* the clock advances between handler calls
Tick ==
    /\ now < MaxTime
    /\ now' = now + 1
    /\ UNCHANGED <<users, sessions, blacklist, tokens, nextJti, last, streak, tasks>>
    /\ UNCHANGED tracker

---------------------------------------------------------------------------
(* AuthService.register_user *)

\* (variant: only the username is looked up)
register_user_NoEmailCheck(user_data) ==
    /\ UNCHANGED <<now, sessions, blacklist, tokens, nextJti, streak, tasks>>
    /\ IF UserByUsername(user_data.username) # {}
       THEN /\ last' = Result("register", "Conflict", "Username already exists",
                              user_data, None, None, << >>)
            /\ UNCHANGED users
       ELSE /\ users' = Append(users, User(user_data.username, user_data.email,
                                hash_password(user_data.password), user_data.role))
            /\ last' = Result("register", "ok", "", user_data, None, None,
                              <<Len(users) + 1>>)

register_user(user_data) ==
    /\ UNCHANGED <<now, sessions, blacklist, tokens, nextJti, streak, tasks>>
    /\ IF UserByUsername(user_data.username) # {}
       THEN /\ last' = Result("register", "Conflict", "Username already exists",
                              user_data, None, None, << >>)
            /\ UNCHANGED users
       ELSE IF UserByEmail(user_data.email) # {}
       THEN /\ last' = Result("register", "Conflict", "Email already exists",
                              user_data, None, None, << >>)
            /\ UNCHANGED users
       ELSE /\ users' = Append(users, User(user_data.username, user_data.email,
                                hash_password(user_data.password), user_data.role))
            /\ last' = Result("register", "ok", "", user_data, None, None,
                              <<Len(users) + 1>>)

---------------------------------------------------------------------------
(* AuthService.login_user *)

\* (variant: the lock is set one failure late, ">" for ">=")
RecordFailedAttempt_Late(user, t) ==
    LET n == user.failed_login_attempts + 1 IN
    IF n > max_login_attempts
    THEN [user EXCEPT !.failed_login_attempts = n,
                      !.locked_until = Some(t + account_lockout_duration)]
    ELSE [user EXCEPT !.failed_login_attempts = n]

\* (variant: a lock that has run out gives the account a fresh count)
RecordFailedAttempt_ExpiryResets(user, t) ==
    LET n == IF Len(user.locked_until) > 0 /\ user.locked_until[1] <= t
             THEN 1 ELSE user.failed_login_attempts + 1 IN
    IF n >= max_login_attempts
    THEN [user EXCEPT !.failed_login_attempts = n,
                      !.locked_until = Some(t + account_lockout_duration)]
    ELSE [user EXCEPT !.failed_login_attempts = n]

\* wrong password: the counter is incremented and, at the threshold, the
\* account is locked until now + lockout duration
RecordFailedAttempt(user, t) ==
    LET n == user.failed_login_attempts + 1 IN
    IF n >= max_login_attempts
    THEN [user EXCEPT !.failed_login_attempts = n,
                      !.locked_until = Some(t + account_lockout_duration)]
    ELSE [user EXCEPT !.failed_login_attempts = n]

\* (variant: the failure that sets the lock still answers Unauthorized)
FailedAttemptKind_Generic(user) == "Unauthorized"

\* the exception a wrong password ends with
FailedAttemptKind(user) ==
    IF user.failed_login_attempts + 1 >= max_login_attempts
    THEN "Forbidden" ELSE "Unauthorized"

\* (variant: the lock is left in place)
RecordSuccess_KeepsLock(user, t) ==
    [user EXCEPT !.failed_login_attempts = 0,
                 !.last_login = Some(t)]

\* correct password on an active account
RecordSuccess(user, t) ==
    [user EXCEPT !.failed_login_attempts = 0,
                 !.locked_until = None,
                 !.last_login = Some(t)]

\* (variant: the session is keyed to the access token's identifier)
LoginSession_AccessJti(user_id, access_jti, refresh_jti, t) ==
    UserSession(user_id, access_jti, t + jwt_refresh_token_expire)

\* the session row a login adds
LoginSession(user_id, access_jti, refresh_jti, t) ==
    UserSession(user_id, refresh_jti, t + jwt_refresh_token_expire)

\* consecutive wrong-password attempts on an account since it was last seen
\* with a zero counter and no lock (history of the calls, not program state)
StreakAfterFailure(e, user, t) ==
    IF user.failed_login_attempts = 0 /\ ~IsLocked(user, t)
    THEN [streak EXCEPT ![e] = 1]
    ELSE IF streak[e] > 0 THEN [streak EXCEPT ![e] = streak[e] + 1]
    ELSE streak

login_user(email, password) ==
    LET args == [email |-> email, password |-> password] IN
    /\ UNCHANGED now
    /\ IF UserByEmail(email) = {}
       THEN /\ last' = Result("login", "Unauthorized", "Invalid credentials",
                              args, Some(now), None, << >>)
            /\ UNCHANGED <<users, sessions, blacklist, tokens, nextJti, streak, tasks>>
       ELSE
       LET id == CHOOSE i \in UserByEmail(email) : TRUE
           user == users[id]
       IN
       IF IsLocked(user, now)
       THEN /\ last' = Result("login", "Forbidden", "Account is locked",
                              args, Some(now), Some(user), << >>)
            /\ UNCHANGED <<users, sessions, blacklist, tokens, nextJti, streak, tasks>>
       ELSE IF ~verify_password(password, user.password_hash)
       THEN /\ users' = [users EXCEPT ![id] = RecordFailedAttempt(user, now)]
            /\ last' = Result("login", FailedAttemptKind(user),
                              "Invalid credentials", args, Some(now), Some(user),
                              << >>)
            /\ streak' = StreakAfterFailure(email, user, now)
            /\ UNCHANGED <<sessions, blacklist, tokens, nextJti, tasks>>
       ELSE IF ~user.is_active
       THEN /\ last' = Result("login", "Forbidden", "Account is inactive",
                              args, Some(now), Some(user), << >>)
            /\ streak' = [streak EXCEPT ![email] = 0]
            /\ UNCHANGED <<users, sessions, blacklist, tokens, nextJti, tasks>>
       ELSE
       LET access_jti == nextJti
           refresh_jti == nextJti + 1
           access_token == create_access_token(id, user.role, access_jti, now)
           refresh_token == create_refresh_token(id, user.role, refresh_jti, now)
       IN
            /\ nextJti + 1 <= MaxJti
            /\ users' = [users EXCEPT ![id] = RecordSuccess(user, now)]
            /\ sessions' = sessions \cup {LoginSession(id, access_jti, refresh_jti, now)}
            /\ tokens' = tokens \cup {access_token, refresh_token}
            /\ nextJti' = nextJti + 2
            /\ last' = Result("login", "ok", "", args, Some(now), Some(user),
                              [user |-> id, access_token |-> access_token,
                               refresh_token |-> refresh_token])
            /\ streak' = [streak EXCEPT ![email] = 0]
            /\ UNCHANGED <<blacklist, tasks>>

---------------------------------------------------------------------------
(* AuthService.refresh_access_token *)

\* (variant: the token type is not compared)
TokenGate_AnyType(token, required_type, t) ==
    LET decoded == decode_token(token, t)
        payload == decoded.payload
    IN
    IF decoded.kind # "ok"
    THEN [kind |-> decoded.kind, detail |-> decoded.detail]
    ELSE IF is_token_blacklisted(payload.jti)
    THEN [kind |-> "Unauthorized", detail |-> "Token has been revoked"]
    ELSE IF payload.sub \notin UserIds \/ ~users[payload.sub].is_active
    THEN [kind |-> "Unauthorized", detail |-> "User not found or inactive"]
    ELSE [kind |-> "ok", detail |-> ""]

\* (variant: the account row is not looked at)
TokenGate_NoAccountCheck(token, required_type, t) ==
    LET decoded == decode_token(token, t)
        payload == decoded.payload
    IN
    IF decoded.kind # "ok"
    THEN [kind |-> decoded.kind, detail |-> decoded.detail]
    ELSE IF payload.type # required_type
    THEN [kind |-> "Unauthorized", detail |-> "Invalid token type"]
    ELSE IF is_token_blacklisted(payload.jti)
    THEN [kind |-> "Unauthorized", detail |-> "Token has been revoked"]
    ELSE [kind |-> "ok", detail |-> ""]

\* (variant: the revocation ledger is not consulted)
TokenGate_NoLedger(token, required_type, t) ==
    LET decoded == decode_token(token, t)
        payload == decoded.payload
    IN
    IF decoded.kind # "ok"
    THEN [kind |-> decoded.kind, detail |-> decoded.detail]
    ELSE IF payload.type # required_type
    THEN [kind |-> "Unauthorized", detail |-> "Invalid token type"]
    ELSE IF payload.sub \notin UserIds \/ ~users[payload.sub].is_active
    THEN [kind |-> "Unauthorized", detail |-> "User not found or inactive"]
    ELSE [kind |-> "ok", detail |-> ""]

\* the checks refresh_access_token and get_current_user make on a token
\* before they trust it, in the order of the code; "ok" when all pass
TokenGate(token, required_type, t) ==
    LET decoded == decode_token(token, t)
        payload == decoded.payload
    IN
    IF decoded.kind # "ok"
    THEN [kind |-> decoded.kind, detail |-> decoded.detail]
    ELSE IF payload.type # required_type
    THEN [kind |-> "Unauthorized", detail |-> "Invalid token type"]
    ELSE IF is_token_blacklisted(payload.jti)
    THEN [kind |-> "Unauthorized", detail |-> "Token has been revoked"]
    ELSE IF payload.sub \notin UserIds \/ ~users[payload.sub].is_active
    THEN [kind |-> "Unauthorized", detail |-> "User not found or inactive"]
    ELSE [kind |-> "ok", detail |-> ""]

\* (variant: a new refresh token is issued with every refresh)
refresh_result_Rotating(refresh_token, jti) ==
    LET gate == TokenGate(refresh_token, "refresh", now) IN
    IF gate.kind # "ok"
    THEN Outcome("refresh", gate.kind, gate.detail, << >>)
    ELSE Outcome("refresh", "ok", "",
                 [access_token |->
                      create_access_token(refresh_token.sub,
                                          users[refresh_token.sub].role, jti, now),
                  refresh_token |->
                      create_refresh_token(refresh_token.sub,
                                           users[refresh_token.sub].role, jti, now)])

\* what refresh_access_token(refresh_token) raises or returns when the next
\* uuid4 value is jti
\* (variant: the new access token carries the role claim of the refresh
\* token)
refresh_result_ClaimedRole(refresh_token, jti) ==
    LET gate == TokenGate(refresh_token, "refresh", now) IN
    IF gate.kind # "ok"
    THEN Outcome("refresh", gate.kind, gate.detail, << >>)
    ELSE Outcome("refresh", "ok", "",
                 [access_token |->
                      create_access_token(refresh_token.sub,
                                          refresh_token.role, jti, now),
                  refresh_token |-> refresh_token])

refresh_result(refresh_token, jti) ==
    LET gate == TokenGate(refresh_token, "refresh", now) IN
    IF gate.kind # "ok"
    THEN Outcome("refresh", gate.kind, gate.detail, << >>)
    ELSE Outcome("refresh", "ok", "",
                 [access_token |->
                      create_access_token(refresh_token.sub,
                                          users[refresh_token.sub].role, jti, now),
                  refresh_token |-> refresh_token])

refresh_access_token(refresh_token) ==
    LET result == refresh_result(refresh_token, nextJti) IN
    /\ UNCHANGED <<now, users, sessions, blacklist, streak, tasks>>
    /\ last' = result
    /\ IF result.kind # "ok"
       THEN UNCHANGED <<tokens, nextJti>>
       ELSE /\ nextJti <= MaxJti
            /\ tokens' = tokens \cup {result.out.access_token}
            /\ nextJti' = nextJti + 1

---------------------------------------------------------------------------
(* AuthService.get_current_user *)

\* what get_current_user(token) raises or returns
current_user_result(token) ==
    LET gate == TokenGate(token, "access", now) IN
    IF gate.kind # "ok"
    THEN Outcome("current_user", gate.kind, gate.detail, << >>)
    ELSE Outcome("current_user", "ok", "",
                 [user |-> token.sub, row |-> users[token.sub]])

get_current_user(token) ==
    /\ UNCHANGED <<now, users, sessions, blacklist, tokens, nextJti, streak, tasks>>
    /\ last' = current_user_result(token)

---------------------------------------------------------------------------
(* AuthService.logout_user, AuthService.logout_all_devices *)

\* (variant: the commit also discards the rows past their natural expiry)
CommitBlacklist_Compacting(rows) ==
    IF \/ \E r \in rows : is_token_blacklisted(r.jti)
       \/ Cardinality({r.jti : r \in rows}) # Cardinality(rows)
    THEN [kind |-> "IntegrityError", table |-> blacklist]
    ELSE [kind |-> "ok",
          table |-> {b \in blacklist : b.expires_at > now} \cup rows]

\* (variant: every row is flushed on its own, so the rows that do not
\* collide stay in the table when a later one is rejected)
CommitBlacklist_PerRow(rows) ==
    IF \/ \E r \in rows : is_token_blacklisted(r.jti)
       \/ Cardinality({r.jti : r \in rows}) # Cardinality(rows)
    THEN [kind |-> "IntegrityError",
          table |-> blacklist \cup
                        {r \in rows : ~is_token_blacklisted(r.jti)}]
    ELSE [kind |-> "ok", table |-> blacklist \cup rows]

\* db.commit() of added token_blacklist rows: the unique constraint on jti
\* rejects the whole transaction when an added identifier is already in the
\* table or is added twice
CommitBlacklist(rows) ==
    IF \/ \E r \in rows : is_token_blacklisted(r.jti)
       \/ Cardinality({r.jti : r \in rows}) # Cardinality(rows)
    THEN [kind |-> "IntegrityError", table |-> blacklist]
    ELSE [kind |-> "ok", table |-> blacklist \cup rows]

\* (variant: only the refresh token is revoked)
LogoutRows_RefreshOnly(access_payload, refresh_payload) ==
    { TokenBlacklist(refresh_payload.jti, "refresh", refresh_payload.exp) }

\* the two rows logout_user adds, tagged by argument position; when both
\* arguments are the same token the rows differ only in token_type
LogoutRows(access_payload, refresh_payload) ==
    { TokenBlacklist(access_payload.jti, "access", access_payload.exp),
      TokenBlacklist(refresh_payload.jti, "refresh", refresh_payload.exp) }

logout_user(access_token, refresh_token) ==
    LET access_decoded == decode_token(access_token, now)
        refresh_decoded == decode_token(refresh_token, now)
    IN
    /\ UNCHANGED <<now, users, sessions, tokens, nextJti, streak, tasks>>
    /\ IF access_decoded.kind # "ok"
       THEN /\ last' = Outcome("logout", access_decoded.kind,
                               access_decoded.detail, << >>)
            /\ UNCHANGED blacklist
       ELSE IF refresh_decoded.kind # "ok"
       THEN /\ last' = Outcome("logout", refresh_decoded.kind,
                               refresh_decoded.detail, << >>)
            /\ UNCHANGED blacklist
       ELSE
       LET committed == CommitBlacklist(LogoutRows(access_decoded.payload,
                                                   refresh_decoded.payload))
       IN
            \* the "delete user session" statement is a select: no row goes
            /\ blacklist' = committed.table
            /\ last' = Outcome("logout", committed.kind, "", << >>)

\* (variant: the access tokens issued to the account are revoked as well)
LogoutAllRows_WithAccess(user_id) ==
    { TokenBlacklist(x.refresh_token_jti, "refresh", x.expires_at) :
        x \in SessionsOf(user_id) }
      \cup { TokenBlacklist(tk.jti, "access", tk.exp) :
                tk \in {t \in tokens : t.sub = user_id /\ t.type = "access"} }

\* the rows logout_all_devices adds: one per session of the account
LogoutAllRows(user_id) ==
    { TokenBlacklist(x.refresh_token_jti, "refresh", x.expires_at) :
        x \in SessionsOf(user_id) }

logout_all_devices(user_id) ==
    LET committed == CommitBlacklist(LogoutAllRows(user_id))
    IN
    /\ UNCHANGED <<now, users, sessions, tokens, nextJti, streak, tasks>>
    \* the "delete all sessions" statement is a select: no row goes
    /\ blacklist' = committed.table
    /\ last' = Outcome("logout_all", committed.kind, "", << >>)

---------------------------------------------------------------------------
(* POST /auth/logout (src/src/routers/auth.py) with its dependencies       *)
(* get_current_user and get_current_active_user (src/src/app/dependencies) *)
(* The audit_logs table the routers append to is read by no handler and is *)
(* not part of the state.                                                  *)

\* an HTTPException as the framework's default handler renders it: the
\* status and a body {"detail": ...}; the body has no code member
HTTPException(status_code, detail) ==
    [status |-> status_code, code |-> None, detail |-> detail, user |-> << >>]

\* dependencies.get_current_user on the bearer token: every exception of
\* AuthService.get_current_user is caught and raised again as an
\* HTTPException with status 401 and the exception's text as detail
current_user_dependency(authorization) ==
    LET resolved == current_user_result(authorization) IN
    IF resolved.kind # "ok" THEN HTTPException("401", resolved.detail)
    ELSE [status |-> "200", code |-> None, detail |-> "",
          user |-> <<resolved.out.user>>]

\* dependencies.get_current_active_user: an inactive account is answered 403
get_current_active_user(authorization) ==
    LET current_user == current_user_dependency(authorization) IN
    IF current_user.status # "200" THEN current_user
    ELSE IF ~users[current_user.user[1]].is_active
    THEN HTTPException("403", "Inactive user")
    ELSE current_user

\* GET /auth/me: answers with the account of the bearer token; `out` is
\* the response body (its code member and the account)
get_me(authorization) ==
    LET current_user == get_current_active_user(authorization) IN
    /\ UNCHANGED <<now, users, sessions, blacklist, tokens, nextJti, streak, tasks>>
    /\ UNCHANGED tracker
    /\ last' = Result("GET /auth/me", current_user.status,
                      current_user.detail, authorization, None, None,
                      [code |-> current_user.code,
                       user |-> current_user.user])

\* the logout endpoint: authenticates the caller, writes the audit entry and
\* answers 204; token_data.refresh_token is not read and AuthService is not
\* called
logout(authorization, token_data) ==
    LET current_user == get_current_active_user(authorization) IN
    /\ UNCHANGED <<now, users, sessions, blacklist, tokens, nextJti, streak, tasks>>
    /\ IF current_user.status # "200"
       THEN last' = Outcome("POST /auth/logout", current_user.status, "", << >>)
       ELSE last' = Outcome("POST /auth/logout", "204", "", << >>)

---------------------------------------------------------------------------
(* PermissionService (src/src/services/permission_service.py) *)

\* UserRole
Roles == {"developer", "manager", "admin"}

\* the keys of permission_map
Actions ==
    {"create_project", "edit_project", "archive_project", "create_issue",
     "edit_issue", "change_assignee", "add_comment", "edit_comment"}

\* the actions whose check function takes a resource id
ResourceActions ==
    {"edit_project", "archive_project", "edit_issue", "change_assignee",
     "edit_comment"}

\* a row of the projects table as Project(...) constructs it (the
\* description and the timestamps are left out)
Project(name, created_by) ==
    [name |-> name, is_archived |-> FALSE, created_by |-> created_by]

\* a row of the issues table as Issue(...) constructs it (title, description
\* and created_at/updated_at are left out); assignee_id is None or Some(id)
Issue(project_id, priority, reporter_id, assignee_id) ==
    [status |-> "open", priority |-> priority, project_id |-> project_id,
     reporter_id |-> reporter_id, assignee_id |-> assignee_id,
     resolved_at |-> None, closed_at |-> None]

\* a row of the comments table (the content and the timestamps are left out)
Comment(issue_id, author_id) ==
    [issue_id |-> issue_id, author_id |-> author_id]

\* a User object as a handler holds it: the primary key and the row
LoadedUser(id) == [user |-> id, row |-> users[id]]

\* (variant: everybody may create projects)
can_create_project_Anyone(user) == TRUE

can_create_project(user) == user.row.role \in {"manager", "admin"}

\* (variant: the manager role gives no right on other people's projects)
can_edit_project_NoManager(user, project_id) ==
    IF user.row.role = "admin" THEN TRUE
    ELSE IF project_id \notin DOMAIN projects THEN FALSE
    ELSE projects[project_id].created_by = user.user

can_edit_project(user, project_id) ==
    IF user.row.role = "admin" THEN TRUE
    ELSE IF project_id \notin DOMAIN projects THEN FALSE
    ELSE \/ projects[project_id].created_by = user.user
         \/ user.row.role = "manager"

can_archive_project(user, project_id) == can_edit_project(user, project_id)

can_create_issue(user) == TRUE

\* (variant: being the assignee gives no right to edit)
can_edit_issue_NoAssignee(user, issue_id) ==
    IF user.row.role = "admin" THEN TRUE
    ELSE IF issue_id \notin DOMAIN issues THEN FALSE
    ELSE \/ issues[issue_id].reporter_id = user.user
         \/ user.row.role = "manager"

can_edit_issue(user, issue_id) ==
    IF user.row.role = "admin" THEN TRUE
    ELSE IF issue_id \notin DOMAIN issues THEN FALSE
    ELSE \/ issues[issue_id].reporter_id = user.user
         \/ issues[issue_id].assignee_id = Some(user.user)
         \/ user.row.role = "manager"

\* (variant: the assignee may hand the issue on)
can_change_assignee_Assignee(user, issue_id) ==
    IF user.row.role \in {"admin", "manager"} THEN TRUE
    ELSE IF issue_id \notin DOMAIN issues THEN FALSE
    ELSE \/ issues[issue_id].reporter_id = user.user
         \/ issues[issue_id].assignee_id = Some(user.user)

can_change_assignee(user, issue_id) ==
    IF user.row.role \in {"admin", "manager"} THEN TRUE
    ELSE IF issue_id \notin DOMAIN issues THEN FALSE
    ELSE issues[issue_id].reporter_id = user.user

can_add_comment(user) == TRUE

\* (variant: a manager may edit any comment)
can_edit_comment_Manager(user, comment_id) ==
    IF user.row.role \in {"admin", "manager"} THEN TRUE
    ELSE IF comment_id \notin DOMAIN comments THEN FALSE
    ELSE comments[comment_id].author_id = user.user

\* (variant: an admin is treated like everybody else)
can_edit_comment_AuthorOnly(user, comment_id) ==
    IF comment_id \notin DOMAIN comments THEN FALSE
    ELSE comments[comment_id].author_id = user.user

can_edit_comment(user, comment_id) ==
    IF user.row.role = "admin" THEN TRUE
    ELSE IF comment_id \notin DOMAIN comments THEN FALSE
    ELSE comments[comment_id].author_id = user.user

\* what require_permission(user, action, resource_id) raises ("ok" when it
\* returns).  resource_id is None or Some(id); a check function is called
\* with the resource id exactly when one is given, so a check that takes a
\* resource fails with TypeError without one, and one that takes none fails
\* with TypeError when one is given.
permission_result(user, action, resource_id) ==
    LET takes_resource == action \in ResourceActions
        has_permission ==
            CASE action = "create_project" -> can_create_project(user)
              [] action = "edit_project" ->
                    can_edit_project(user, resource_id[1])
              [] action = "archive_project" ->
                    can_archive_project(user, resource_id[1])
              [] action = "create_issue" -> can_create_issue(user)
              [] action = "edit_issue" -> can_edit_issue(user, resource_id[1])
              [] action = "change_assignee" ->
                    can_change_assignee(user, resource_id[1])
              [] action = "add_comment" -> can_add_comment(user)
              [] action = "edit_comment" ->
                    can_edit_comment(user, resource_id[1])
    IN
    IF action \notin Actions
    THEN [kind |-> "ValueError", detail |-> "Unknown action"]
    ELSE IF takes_resource # (resource_id # None)
    THEN [kind |-> "TypeError", detail |-> ""]
    ELSE IF ~has_permission
    THEN [kind |-> "InsufficientPermissions",
          detail |-> "You do not have permission to"]
    ELSE [kind |-> "ok", detail |-> ""]

require_permission(user_id, action, resource_id) ==
    LET result == permission_result(LoadedUser(user_id), action, resource_id)
    IN
    /\ UNCHANGED <<now, users, sessions, blacklist, tokens, nextJti, streak, tasks>>
    /\ UNCHANGED tracker
    /\ last' = Result("require_permission", result.kind, result.detail,
                      [user |-> user_id, action |-> action,
                       resource_id |-> resource_id], None, None, << >>)

\* (variant: an admin passes whatever roles are required)
require_role_result_AdminPasses(user, roles) ==
    IF user.row.role \notin roles /\ user.row.role # "admin"
    THEN [kind |-> "InsufficientPermissions",
          detail |-> "This action requires one of the following roles"]
    ELSE [kind |-> "ok", detail |-> ""]

\* what PermissionService.require_role(user, *roles) does: the exception it
\* raises, or "ok" when it returns
require_role_result(user, roles) ==
    IF user.row.role \notin roles
    THEN [kind |-> "InsufficientPermissions",
          detail |-> "This action requires one of the following roles"]
    ELSE [kind |-> "ok", detail |-> ""]

require_role(user_id, roles) ==
    LET result == require_role_result(LoadedUser(user_id), roles) IN
    /\ UNCHANGED <<now, users, sessions, blacklist, tokens, nextJti, streak, tasks>>
    /\ UNCHANGED tracker
    /\ last' = Result("require_role", result.kind, result.detail,
                      [user |-> user_id, roles |-> roles], None, None, << >>)

\* the dependency dependencies.require_role(*roles) builds: current_user is
\* the account get_current_active_user resolved; InsufficientPermissions
\* becomes HTTP 403, otherwise the account is handed to the endpoint
role_checker(current_user, roles) ==
    LET result == require_role_result(LoadedUser(current_user), roles) IN
    /\ UNCHANGED <<now, users, sessions, blacklist, tokens, nextJti, streak, tasks>>
    /\ UNCHANGED tracker
    /\ last' = Result("role_checker",
                      IF result.kind = "InsufficientPermissions"
                      THEN "403" ELSE "200",
                      result.detail,
                      [user |-> current_user, roles |-> roles], None, None,
                      IF result.kind = "InsufficientPermissions"
                      THEN << >> ELSE <<current_user>>)

---------------------------------------------------------------------------
(* ProjectService (src/src/services/project_service.py) and the project    *)
(* endpoints that check a permission (src/src/routers/projects.py)         *)

\* number of rows the projects table may hold
MaxProjects == 2

ProjectNames == {"p", "q"}

\* project ids a request may name: those of the rows, and one of no row
ProjectIds == 1..(MaxProjects + 1)

\* ProjectUpdate bodies: only the fields that are set (model_dump with
\* exclude_unset); None is an unset field
ProjectUpdates ==
    { [name |-> Some(n), is_archived |-> None] : n \in ProjectNames }
      \cup { [name |-> None, is_archived |-> Some(b)] : b \in BOOLEAN }

ProjectByName(name) == {i \in DOMAIN projects : projects[i].name = name}

\* ProjectService.create_project(project_data, creator)
create_project(name, creator) ==
    LET args == [user |-> creator, name |-> name] IN
    /\ UNCHANGED <<now, users, sessions, blacklist, tokens, nextJti, streak, tasks>>
    /\ IF ProjectByName(name) # {}
       THEN /\ last' = Result("create_project", "Conflict", "", args, None,
                              None, << >>)
            /\ UNCHANGED projects
       ELSE /\ Len(projects) < MaxProjects
            /\ projects' = Append(projects, Project(name, creator))
            /\ last' = Result("create_project", "ok", "", args, None, None,
                              <<Len(projects) + 1>>)

\* the fields of project_data that are set, written to the row
ApplyProjectUpdate(project, project_data) ==
    [project EXCEPT
        !.name = IF project_data.name # None
                 THEN project_data.name[1] ELSE @,
        !.is_archived = IF project_data.is_archived # None
                        THEN project_data.is_archived[1] ELSE @]

\* PATCH /projects/{project_id}: the permission check, then
\* ProjectService.get_project and ProjectService.update_project
update_project(current_user, project_id, project_data) ==
    LET args == [user |-> current_user, project_id |-> project_id,
                 project_data |-> project_data]
        allowed == permission_result(LoadedUser(current_user), "edit_project",
                                     Some(project_id))
    IN
    /\ UNCHANGED <<now, users, sessions, blacklist, tokens, nextJti, streak, tasks>>
    /\ IF allowed.kind # "ok"
       THEN /\ last' = Result("update_project", allowed.kind, allowed.detail,
                              args, None, None, << >>)
            /\ UNCHANGED projects
       ELSE IF project_id \notin DOMAIN projects
       THEN /\ last' = Result("update_project", "NotFound", "", args, None,
                              None, << >>)
            /\ UNCHANGED projects
       ELSE IF /\ project_data.name # None
               /\ project_data.name[1] # projects[project_id].name
               /\ ProjectByName(project_data.name[1]) # {}
       THEN /\ last' = Result("update_project", "Conflict", "", args, None,
                              None, << >>)
            /\ UNCHANGED projects
       ELSE /\ projects' = [projects EXCEPT ![project_id] =
                               ApplyProjectUpdate(@, project_data)]
            /\ last' = Result("update_project", "ok", "", args, None, None,
                              << >>)

\* DELETE /projects/{project_id}: the permission check, then
\* ProjectService.archive_project
archive_project(current_user, project_id) ==
    LET args == [user |-> current_user, project_id |-> project_id]
        allowed == permission_result(LoadedUser(current_user),
                                     "archive_project", Some(project_id))
    IN
    /\ UNCHANGED <<now, users, sessions, blacklist, tokens, nextJti, streak, tasks>>
    /\ IF allowed.kind # "ok"
       THEN /\ last' = Result("archive_project", allowed.kind, allowed.detail,
                              args, None, None, << >>)
            /\ UNCHANGED projects
       ELSE IF project_id \notin DOMAIN projects
       THEN /\ last' = Result("archive_project", "NotFound", "", args, None,
                              None, << >>)
            /\ UNCHANGED projects
       ELSE /\ projects' = [projects EXCEPT ![project_id].is_archived = TRUE]
            /\ last' = Result("archive_project", "ok", "", args, None, None,
                              << >>)

\* one account of every role
RoleUsers ==
    << User("alice", "a@x", hash_password("s1"), "developer"),
       User("bob", "b@x", hash_password("s2"), "manager"),
       User("carol", "c@x", hash_password("s1"), "admin") >>

InitPerm == Fresh({RoleUsers})

\* actions a caller may ask permission for: the known ones and an unknown
RequestedActions == Actions \cup {"delete_project"}

(* Permission checks and project handlers called by every account *)
NextPerm ==
    \/ \E u \in UserIds, n \in ProjectNames :
         create_project(n, u) /\ UNCHANGED <<issues, comments>>
    \/ \E u \in UserIds, a \in RequestedActions :
         \E id \in {None} \cup {Some(i) : i \in ProjectIds} :
            require_permission(u, a, id)
    \/ \E u \in UserIds, id \in ProjectIds, d \in ProjectUpdates :
         update_project(u, id, d) /\ UNCHANGED <<issues, comments>>
    \/ \E u \in UserIds, id \in ProjectIds :
         archive_project(u, id) /\ UNCHANGED <<issues, comments>>
    \/ \E u \in UserIds, roles \in SUBSET Roles : require_role(u, roles)
    \/ \E u \in UserIds, roles \in SUBSET Roles : role_checker(u, roles)

SpecPerm == InitPerm /\ [][NextPerm]_vars

---------------------------------------------------------------------------
(* IssueService and CommentService (src/src/services/issue_service.py,     *)
(* comment_service.py), the validators of src/src/utils/validators.py and  *)
(* the issue and comment endpoints (src/src/routers/issues.py,             *)
(* comments.py)                                                            *)

\* sizes of the issues and comments tables
MaxIssues == 1
MaxComments == 1

IssueIds == 1..(MaxIssues + 1)
CommentIds == 1..(MaxComments + 1)

IssueStatus == {"open", "in_progress", "resolved", "closed", "reopened"}

\* (variant: an open issue may be resolved directly)
VALID_STATE_TRANSITIONS_Shortcut ==
    [s \in IssueStatus |->
        CASE s = "open" -> {"in_progress", "resolved", "closed"}
          [] s = "in_progress" -> {"resolved", "open"}
          [] s = "resolved" -> {"closed", "reopened"}
          [] s = "closed" -> {"reopened"}
          [] s = "reopened" -> {"in_progress", "resolved"}]

VALID_STATE_TRANSITIONS ==
    [s \in IssueStatus |->
        CASE s = "open" -> {"in_progress", "closed"}
          [] s = "in_progress" -> {"resolved", "open"}
          [] s = "resolved" -> {"closed", "reopened"}
          [] s = "closed" -> {"reopened"}
          [] s = "reopened" -> {"in_progress", "resolved"}]

\* the exception validate_state_transition raises, or "ok"
validate_state_transition(current_status, new_status) ==
    IF current_status = new_status THEN [kind |-> "ok", detail |-> ""]
    ELSE IF new_status \notin VALID_STATE_TRANSITIONS[current_status]
    THEN [kind |-> "InvalidStateTransition", detail |-> "Cannot transition"]
    ELSE [kind |-> "ok", detail |-> ""]

\* (variant: no issue is closed without a comment, whatever its priority)
validate_critical_issue_closure_AnyPriority(priority, status, comment_count) ==
    IF status = "closed" /\ comment_count = 0
    THEN [kind |-> "InvalidStateTransition",
          detail |-> "Critical issues cannot be closed without at least one comment"]
    ELSE [kind |-> "ok", detail |-> ""]

validate_critical_issue_closure(priority, status, comment_count) ==
    IF priority = "critical" /\ status = "closed" /\ comment_count = 0
    THEN [kind |-> "InvalidStateTransition",
          detail |-> "Critical issues cannot be closed without at least one comment"]
    ELSE [kind |-> "ok", detail |-> ""]

\* Issue.comment_count: the number of comments rows of the issue
comment_count(issue_id) ==
    Cardinality({c \in DOMAIN comments : comments[c].issue_id = issue_id})

\* POST /projects/{project_id}/issues: the project is looked up, then
\* IssueService.create_issue stores the issue with the caller as reporter
create_issue(current_user, project_id, issue_data) ==
    LET args == [user |-> current_user, project_id |-> project_id,
                 issue_data |-> issue_data]
    IN
    /\ UNCHANGED <<now, users, sessions, blacklist, tokens, nextJti, streak, tasks>>
    /\ UNCHANGED <<projects, comments>>
    /\ IF project_id \notin DOMAIN projects
       THEN /\ last' = Result("create_issue", "NotFound", "", args, None,
                              None, << >>)
            /\ UNCHANGED issues
       ELSE /\ Len(issues) < MaxIssues
            /\ issues' = Append(issues,
                                Issue(project_id, issue_data.priority,
                                      current_user, issue_data.assignee_id))
            /\ last' = Result("create_issue", "ok", "", args, None, None,
                              <<Len(issues) + 1>>)

\* POST /issues/{issue_id}/comments: the issue is looked up, then
\* CommentService.create_comment stores the comment with the caller as author
create_comment(current_user, issue_id) ==
    LET args == [user |-> current_user, issue_id |-> issue_id] IN
    /\ UNCHANGED <<now, users, sessions, blacklist, tokens, nextJti, streak, tasks>>
    /\ UNCHANGED <<projects, issues>>
    /\ IF issue_id \notin DOMAIN issues
       THEN /\ last' = Result("create_comment", "NotFound", "", args, None,
                              None, << >>)
            /\ UNCHANGED comments
       ELSE /\ Len(comments) < MaxComments
            /\ comments' = Append(comments, Comment(issue_id, current_user))
            /\ last' = Result("create_comment", "ok", "", args, None, None,
                              <<Len(comments) + 1>>)

\* the fields of issue_data that are set, written to the row (model_dump
\* with exclude_unset and setattr); None is an unset field
ApplyIssueUpdate(issue, issue_data) ==
    [issue EXCEPT
       !.status = IF issue_data.status # None
                  THEN issue_data.status[1] ELSE @,
       !.priority = IF issue_data.priority # None
                    THEN issue_data.priority[1] ELSE @,
       !.assignee_id = IF issue_data.assignee_id # None
                       THEN issue_data.assignee_id[1] ELSE @]

\* IssueService.update_issue on an issue that exists: the exception raised,
\* or "ok" with the row that is committed.  The validators read the stored
\* priority and the stored comments
update_issue_result(issue_id, issue_data) ==
    LET issue == issues[issue_id]
        changes_status ==
            issue_data.status # None /\ issue_data.status[1] # issue.status
        new_status == issue_data.status[1]
        transition == validate_state_transition(issue.status, new_status)
        closure == validate_critical_issue_closure(issue.priority, new_status,
                                                   comment_count(issue_id))
        stamped ==
            IF ~changes_status THEN issue
            ELSE IF new_status = "resolved"
            THEN [issue EXCEPT !.resolved_at = Some(now)]
            ELSE IF new_status = "closed"
            THEN [issue EXCEPT !.closed_at = Some(now)]
            ELSE IF new_status = "reopened"
            THEN [issue EXCEPT !.resolved_at = None, !.closed_at = None]
            ELSE issue
    IN
    IF changes_status /\ transition.kind # "ok"
    THEN [kind |-> transition.kind, detail |-> transition.detail,
          issue |-> issue]
    ELSE IF changes_status /\ new_status = "closed" /\ closure.kind # "ok"
    THEN [kind |-> closure.kind, detail |-> closure.detail, issue |-> issue]
    ELSE [kind |-> "ok", detail |-> "",
          issue |-> ApplyIssueUpdate(stamped, issue_data)]

\* PATCH /issues/{issue_id}: the edit_issue permission is required, the
\* issue is looked up, then IssueService.update_issue runs
update_issue(current_user, issue_id, issue_data) ==
    LET args == [user |-> current_user, issue_id |-> issue_id,
                 issue_data |-> issue_data]
        permission == permission_result(LoadedUser(current_user),
                                        "edit_issue", Some(issue_id))
    IN
    /\ UNCHANGED <<now, users, sessions, blacklist, tokens, nextJti, streak, tasks>>
    /\ UNCHANGED <<projects, comments>>
    /\ IF permission.kind # "ok"
       THEN /\ last' = Result("update_issue", permission.kind,
                              permission.detail, args, None, None, << >>)
            /\ UNCHANGED issues
       ELSE IF issue_id \notin DOMAIN issues
       THEN /\ last' = Result("update_issue", "NotFound", "", args, None,
                              None, << >>)
            /\ UNCHANGED issues
       ELSE LET result == update_issue_result(issue_id, issue_data) IN
            /\ issues' = [issues EXCEPT ![issue_id] = result.issue]
            /\ last' = Result("update_issue", result.kind, result.detail,
                              args, None, None, << >>)

\* a database holding an account of every role and a project of the manager
InitTracker ==
    /\ now = 0
    /\ users = RoleUsers
    /\ sessions = {}
    /\ blacklist = {}
    /\ tokens = {}
    /\ nextJti = 1
    /\ last = Result("init", "ok", "", << >>, None, None, << >>)
    /\ streak = [e \in Emails |-> 0]
    /\ tasks = NoTasks
    /\ projects = <<Project("p", 2)>>
    /\ issues = << >>
    /\ comments = << >>

\* IssueCreate bodies of the permission checks: medium priority, unassigned
\* or assigned to the developer
AssignedIssues ==
    { [priority |-> "medium", assignee_id |-> a] : a \in {None, Some(1)} }

(* Issues of every account, comments of the developer and the manager, and *)
(* the permission checks on them                                           *)
NextAccess ==
    \/ \E u \in UserIds, p \in 1..2, d \in AssignedIssues :
         create_issue(u, p, d)
    \/ \E u \in {1, 2}, i \in IssueIds : create_comment(u, i)
    \/ \E u \in UserIds, a \in Actions :
         \E id \in {None} \cup {Some(i) : i \in IssueIds \cup CommentIds} :
            require_permission(u, a, id)

SpecAccess == InitTracker /\ [][NextAccess]_vars

\* IssueCreate bodies of the workflow: unassigned, of either priority
PrioritisedIssues ==
    { [priority |-> p, assignee_id |-> None] : p \in {"medium", "critical"} }

\* IssueUpdate bodies of the workflow: a status, a priority, both or neither
IssueUpdates ==
    { [status |-> s, priority |-> p, assignee_id |-> None] :
        s \in {None} \cup {Some(x) : x \in IssueStatus},
        p \in {None, Some("medium"), Some("critical")} }

(* The issue workflow: the manager reports issues and updates them, the    *)
(* developer comments and tries to close them                              *)
NextWorkflow ==
    \/ \E d \in PrioritisedIssues : create_issue(2, 1, d)
    \/ \E i \in IssueIds : create_comment(1, i)
    \/ \E i \in IssueIds, d \in IssueUpdates : update_issue(2, i, d)
    \/ \E i \in IssueIds :
         update_issue(1, i, [status |-> Some("closed"), priority |-> None,
                             assignee_id |-> None])

SpecWorkflow == InitTracker /\ [][NextWorkflow]_vars

\* IssueUpdate bodies that set the assignee: to nobody, to the developer or
\* to the manager
Reassignments ==
    { [status |-> None, priority |-> None, assignee_id |-> Some(a)] :
        a \in {None, Some(1), Some(2)} }

(* Issues of every account, reassigned through the update endpoint by      *)
(* every account                                                           *)
NextAssign ==
    \/ \E u \in UserIds, d \in AssignedIssues : create_issue(u, 1, d)
    \/ \E u \in UserIds, i \in IssueIds, d \in Reassignments :
         update_issue(u, i, d)

SpecAssign == InitTracker /\ [][NextAssign]_vars

---------------------------------------------------------------------------

\* credentials as their owners type them, and those of nobody
Credentials ==
    { <<"a@x", "s1">>, <<"b@x", "s2">>, <<"c@x", "s1">> }

(* Registration and login: any email with any password *)
Next ==
    \/ Tick
    \/ \E r \in Registrations : register_user(r) /\ UNCHANGED tracker
    \/ \E e \in Emails, p \in Passwords :
          login_user(e, p) /\ UNCHANGED tracker

Spec == Init /\ [][Next]_vars

(* The token life cycle over a populated database *)
NextToken ==
    \/ Tick
    \/ \E r \in Registrations : register_user(r) /\ UNCHANGED tracker
    \/ \E c \in Credentials : login_user(c[1], c[2]) /\ UNCHANGED tracker
    \/ \E tk \in Presentable : refresh_access_token(tk) /\ UNCHANGED tracker
    \/ \E tk \in Presentable : get_current_user(tk) /\ UNCHANGED tracker
    \* the refresh token is not looked at when the access token fails to
    \* decode: one second argument stands for all of them then
    \/ \E a \in Presentable :
         \E r \in (IF decode_token(a, now).kind = "ok" THEN Presentable ELSE {a}) :
            logout_user(a, r) /\ UNCHANGED tracker
    \/ \E id \in UserIds : logout_all_devices(id) /\ UNCHANGED tracker
    \* the handler does not read the body: one body stands for all of them
    \/ \E a \in Presentable : logout(a, a) /\ UNCHANGED tracker

SpecToken == InitToken /\ [][NextToken]_vars

(* The same handlers when tokens of a deactivated account are outstanding *)
SpecGate == InitGate /\ [][NextToken]_vars

(* A protected endpoint called with every token a client can hold, while   *)
(* tokens expire and are revoked                                           *)
NextEntry ==
    \/ Tick
    \/ \E c \in Credentials : login_user(c[1], c[2]) /\ UNCHANGED tracker
    \/ \E a \in tokens, r \in tokens :
         /\ a.type = "access" /\ r.type = "refresh" /\ a.sub = r.sub
         /\ logout_user(a, r) /\ UNCHANGED tracker
    \/ \E a \in Presentable : get_me(a)

SpecEntry == InitGate /\ [][NextEntry]_vars

(* Tokens presented after the role of their account was changed *)
NextRole ==
    \/ Tick
    \/ \E c \in Credentials : login_user(c[1], c[2]) /\ UNCHANGED tracker
    \/ \E tk \in Presentable : refresh_access_token(tk) /\ UNCHANGED tracker
    \/ \E tk \in Presentable : get_current_user(tk) /\ UNCHANGED tracker

SpecRole == InitRole /\ [][NextRole]_vars

---------------------------------------------------------------------------
(* Account lockout and login (checked under Spec) *)

\* the latest call was login_user and it found an account for the email
LoginRead == last.op = "login" /\ Len(last.pre) = 1

\* the account row the latest login_user call read, and the row as it is now
LoginBefore == last.pre[1]

LoginNow == users[CHOOSE i \in UserByEmail(last.args.email) : TRUE]

LoginWrongPassword ==
    ~verify_password(last.args.password, LoginBefore.password_hash)

LoginWhileLocked ==
    /\ Len(LoginBefore.locked_until) = 1
    /\ LoginBefore.locked_until[1] > last.at[1]

\* C1: from a zero counter and no lock, max_login_attempts consecutive
\* wrong-password logins lock the account, not fewer: after fewer the account
\* has no lock, the last of them sets locked_until to its own time plus the
\* lockout duration, and a login made while the lock is in the future fails
\* with Forbidden and leaves failed_login_attempts as it was.
C1_LockAfterNFailures ==
    /\ \A i \in UserIds :
        LET k == streak[users[i].email] IN
        /\ (0 < k /\ k < max_login_attempts) =>
              /\ users[i].locked_until = None
              /\ users[i].failed_login_attempts = k
        /\ k = max_login_attempts =>
              /\ Len(users[i].locked_until) = 1
              /\ users[i].failed_login_attempts = max_login_attempts
    /\ (LoginRead /\ ~LoginWhileLocked /\ LoginWrongPassword
          /\ streak[last.args.email] = max_login_attempts) =>
          /\ LoginNow.locked_until = Some(last.at[1] + account_lockout_duration)
          /\ last.kind = "Forbidden"
    /\ (LoginRead /\ LoginWhileLocked) =>
          /\ last.kind = "Forbidden"
          /\ LoginNow.failed_login_attempts = LoginBefore.failed_login_attempts

\* the (N+1)th wrong password is refused while the lock of the Nth holds
C1_Witness ==
    /\ LoginRead /\ LoginWhileLocked /\ LoginWrongPassword
    /\ streak[last.args.email] = max_login_attempts
    /\ last.kind = "Forbidden"

\* C2: while locked_until is in the future every login_user call for the
\* account, with the right or a wrong password, fails with the same Forbidden
\* error, returns no token and changes neither the account row nor the
\* sessions nor the set of issued tokens.
C2_LockedShortCircuit ==
    [][ \A e \in Emails, p \in Passwords :
          ( /\ login_user(e, p)
            /\ UserByEmail(e) # {}
            /\ LET user == users[CHOOSE i \in UserByEmail(e) : TRUE] IN
               Len(user.locked_until) = 1 /\ user.locked_until[1] > now )
          => /\ last'.kind = "Forbidden"
             /\ last'.detail = "Account is locked"
             /\ last'.out = << >>
             /\ UNCHANGED <<users, sessions, tokens, nextJti, blacklist>> ]_vars

\* the right password was refused because of the lock
C2_Witness ==
    /\ LoginRead /\ LoginWhileLocked /\ ~LoginWrongPassword
    /\ last.kind = "Forbidden"
    /\ LoginNow = LoginBefore

\* C3: a wrong password on an existing, unlocked account adds one to the
\* committed counter; the call fails with Unauthorized when the new counter
\* is below max_login_attempts (no lock is set) and with Forbidden, with
\* locked_until set, when the new counter has reached it.  A login for an
\* email without an account fails with Unauthorized and changes no state.
C3_WrongPassword ==
    /\ [] ( (LoginRead /\ ~LoginWhileLocked /\ LoginWrongPassword) =>
            LET n == LoginBefore.failed_login_attempts + 1 IN
            /\ LoginNow.failed_login_attempts = n
            /\ n < max_login_attempts =>
                  /\ last.kind = "Unauthorized"
                  /\ LoginNow.locked_until = LoginBefore.locked_until
            /\ n >= max_login_attempts =>
                  /\ last.kind = "Forbidden"
                  /\ LoginNow.locked_until =
                         Some(last.at[1] + account_lockout_duration)
            /\ last.out = << >> )
    /\ [][ \A e \in Emails, p \in Passwords :
             (login_user(e, p) /\ UserByEmail(e) = {})
             => /\ last'.kind = "Unauthorized"
                /\ UNCHANGED <<users, sessions, tokens, nextJti, blacklist>> ]_vars

\* a wrong password below the threshold was counted
C3_Witness ==
    /\ LoginRead /\ ~LoginWhileLocked /\ LoginWrongPassword
    /\ last.kind = "Unauthorized"
    /\ LoginNow.failed_login_attempts = LoginBefore.failed_login_attempts + 1
    /\ LoginNow.failed_login_attempts < max_login_attempts

\* C4: a successful login leaves the account with a zero counter, no lock
\* and last_login at the time of the login, whatever the row held before.
C4_SuccessResets ==
    (last.op = "login" /\ last.kind = "ok") =>
        /\ LoginNow.failed_login_attempts = 0
        /\ LoginNow.locked_until = None
        /\ LoginNow.last_login = last.at

\* a login succeeded on an account whose counter was at the threshold and
\* whose lock had run out
C4_Witness ==
    /\ last.op = "login" /\ last.kind = "ok"
    /\ LoginBefore.failed_login_attempts >= max_login_attempts
    /\ Len(LoginBefore.locked_until) = 1
    /\ LoginNow.failed_login_attempts = 0

---------------------------------------------------------------------------
(* Token classes, expiry and revocation (checked under SpecToken) *)

\* signed by the service, not expired and not in the revocation ledger
Acceptable(tk) ==
    tk.sig /\ tk.exp > now /\ ~(\E b \in blacklist : b.jti = tk.jti)

\* C6: access and refresh tokens are not interchangeable: get_current_user
\* answers Unauthorized and returns no account for every acceptable token of
\* type refresh, and refresh_access_token answers Unauthorized and returns
\* no token for every acceptable token of type access.
C6_ClassesNotInterchangeable ==
    \A tk \in Presentable :
       Acceptable(tk) =>
          /\ tk.type = "refresh" =>
                /\ current_user_result(tk).kind = "Unauthorized"
                /\ current_user_result(tk).out = << >>
          /\ tk.type = "access" =>
                /\ refresh_result(tk, nextJti).kind = "Unauthorized"
                /\ refresh_result(tk, nextJti).out = << >>

\* get_current_user has turned down a refresh token that is acceptable
C6_Witness ==
    /\ last.op = "current_user"
    /\ last.kind = "Unauthorized"
    /\ last.detail = "Invalid token type"
    /\ \A tk \in tokens : Acceptable(tk)
    /\ \E tk \in tokens : tk.type = "refresh"

\* C7: a token signed by the service whose exp is in the past fails with
\* TokenExpired in decode_token, in refresh_access_token and in
\* get_current_user, whether or not its identifier is in the ledger.
C7_ExpiredIsTokenExpired ==
    \A tk \in Presentable :
       (tk.sig /\ tk.exp < now) =>
          /\ decode_token(tk, now).kind = "TokenExpired"
          /\ refresh_result(tk, nextJti).kind = "TokenExpired"
          /\ current_user_result(tk).kind = "TokenExpired"

\* a token that is both expired and revoked was answered with TokenExpired
C7_Witness ==
    /\ last.op \in {"refresh", "current_user"}
    /\ last.kind = "TokenExpired"
    /\ \E tk \in tokens : tk.exp < now
    /\ \A tk \in tokens : tk.exp <= now => is_token_blacklisted(tk.jti)

\* C8: a token whose identifier is in the ledger is refused with
\* Unauthorized by get_current_user (access token) and by
\* refresh_access_token (refresh token) although it is signed by the
\* service, unexpired, and its account exists and is active.
C8_RevokedIsRefused ==
    \A tk \in Presentable :
       ( /\ tk.sig /\ tk.exp > now
         /\ \E b \in blacklist : b.jti = tk.jti
         /\ tk.sub \in UserIds /\ users[tk.sub].is_active ) =>
          /\ tk.type = "access" =>
                /\ current_user_result(tk).kind = "Unauthorized"
                /\ current_user_result(tk).out = << >>
          /\ tk.type = "refresh" =>
                /\ refresh_result(tk, nextJti).kind = "Unauthorized"
                /\ refresh_result(tk, nextJti).out = << >>

\* a revoked refresh token of an active account was refused
C8_Witness ==
    /\ last.op = "refresh"
    /\ last.kind = "Unauthorized"
    /\ last.detail = "Token has been revoked"
    /\ \A i \in UserIds : users[i].is_active

\* C9: no step of register, login, refresh, logout, logout-all or
\* current-user resolution takes an identifier out of the ledger: once
\* is_token_blacklisted(jti) is true it stays true.
C9_OnceRevokedAlwaysRevoked ==
    [][ \A j \in 0..MaxJti :
          is_token_blacklisted(j) => is_token_blacklisted(j)' ]_vars

\* a commit to the ledger went through while it held an entry past its
\* natural expiry
C9_Witness ==
    /\ last.op = "logout_all"
    /\ last.kind = "ok"
    /\ \E b \in blacklist : b.expires_at < now
    /\ \E b \in blacklist : b.expires_at > now

\* C10 (as claimed): revoking identifiers that are already in the ledger
\* succeeds and changes nothing: a second logout_user with the same decodable
\* token pair, and a second logout_all_devices for the same account, return
\* normally and leave the ledger as it was.
C10_RevokeIsIdempotent ==
    [][ /\ \A a \in tokens, r \in tokens :
             ( /\ logout_user(a, r)
               /\ decode_token(a, now).kind = "ok"
               /\ decode_token(r, now).kind = "ok"
               /\ a.jti # r.jti
               /\ is_token_blacklisted(a.jti)
               /\ is_token_blacklisted(r.jti) )
             => (last'.kind = "ok" /\ blacklist' = blacklist)
        /\ \A id \in UserIds :
             ( /\ logout_all_devices(id)
               /\ \A x \in SessionsOf(id) :
                    is_token_blacklisted(x.refresh_token_jti) )
             => (last'.kind = "ok" /\ blacklist' = blacklist) ]_vars

---------------------------------------------------------------------------
(* Logout and logout-all (checked under SpecToken and SpecGate) *)

\* every commit to the ledger so far was made by logout_all_devices: a
\* logout_user commit always leaves a row tagged access
OnlyLogoutAll ==
    \A b \in blacklist :
        /\ b.token_type = "refresh"
        /\ \E x \in sessions : x.refresh_token_jti = b.jti

\* C11 (as claimed): after logins and logout-alls only, a logout_all_devices
\* call for an account leaves every refresh token issued to that account in
\* the ledger tagged refresh, and refresh_access_token answers Unauthorized
\* for each of them that has not expired.
C11_LogoutAllRevokesAll ==
    [][ \A id \in UserIds :
          (logout_all_devices(id) /\ OnlyLogoutAll)
          => \A tk \in tokens :
                (tk.type = "refresh" /\ tk.sub = id) =>
                   /\ \E b \in blacklist' :
                         b.jti = tk.jti /\ b.token_type = "refresh"
                   /\ tk.exp > now =>
                         (refresh_result(tk, nextJti).kind = "Unauthorized")'
      ]_vars

\* C12 (as claimed): logout_user removes the session of the refresh token it
\* revoked, logout_all_devices removes every session of the account, and so
\* no session carries an identifier that is in the ledger.
C12_RevokedSessionsAreRemoved ==
    /\ [] (\A x \in sessions : ~is_token_blacklisted(x.refresh_token_jti))
    /\ [][ /\ \A a \in Presentable, r \in Presentable :
                (logout_user(a, r) /\ last'.kind = "ok")
                => ~(\E x \in sessions' : x.refresh_token_jti = r.jti)
           /\ \A id \in UserIds :
                (logout_all_devices(id) /\ last'.kind = "ok")
                => SessionsOf(id)' = {} ]_vars

\* C13: logout_all_devices commits all of its rows or none: when it returns,
\* the ledger has gained exactly one row tagged refresh for every session of
\* the account, and when its commit fails the ledger is as it was before the
\* call; in neither case is a part of the account's sessions revoked by it.
C13_LogoutAllIsAtomic ==
    [][ \A id \in UserIds :
          logout_all_devices(id) =>
             \/ /\ last'.kind = "ok"
                /\ blacklist' = blacklist \cup LogoutAllRows(id)
                /\ \A x \in SessionsOf(id) :
                      is_token_blacklisted(x.refresh_token_jti)'
             \/ /\ last'.kind # "ok"
                /\ blacklist' = blacklist ]_vars

\* a logout-all failed at commit while the account had a revoked session and
\* one that is not revoked
C13_Witness ==
    /\ last.op = "logout_all"
    /\ last.kind = "IntegrityError"
    /\ \E i \in UserIds :
          /\ \E x \in SessionsOf(i) : is_token_blacklisted(x.refresh_token_jti)
          /\ \E x \in SessionsOf(i) : ~is_token_blacklisted(x.refresh_token_jti)


\* C14: when logout_user returns for an access token and a refresh token
\* that both decode, the ledger holds the access token's identifier tagged
\* access and the refresh token's identifier tagged refresh, with the
\* tokens' own expiry; right after the call get_current_user answers
\* Unauthorized for that access token and refresh_access_token answers
\* Unauthorized for that refresh token.
C14_LogoutRevokesBoth ==
    [][ \A a \in tokens, r \in tokens :
          ( /\ last'.op = "logout" /\ last'.kind = "ok"
            /\ a.type = "access" /\ r.type = "refresh"
            /\ a.exp > now /\ r.exp > now
            /\ logout_user(a, r) )
          => /\ TokenBlacklist(a.jti, "access", a.exp) \in blacklist'
             /\ TokenBlacklist(r.jti, "refresh", r.exp) \in blacklist'
             /\ (current_user_result(a).kind = "Unauthorized")'
             /\ (current_user_result(a).detail = "Token has been revoked")'
             /\ (refresh_result(r, nextJti).kind = "Unauthorized")'
             /\ (refresh_result(r, nextJti).detail = "Token has been revoked")'
      ]_vars

\* a logout has returned with the access and the refresh token of one login
\* in the ledger under their own tags, both still unexpired
C14_Witness ==
    /\ last.op = "logout"
    /\ last.kind = "ok"
    /\ \E a \in tokens, r \in tokens :
          /\ a.type = "access" /\ r.type = "refresh" /\ r.jti = a.jti + 1
          /\ a.exp > now /\ r.exp > now
          /\ TokenBlacklist(a.jti, "access", a.exp) \in blacklist
          /\ TokenBlacklist(r.jti, "refresh", r.exp) \in blacklist


\* C15 (as claimed): when POST /auth/logout answers 204 to a caller who
\* sent an unexpired refresh token, that refresh token and the access token
\* of the request are in the ledger, and refresh_access_token answers
\* Unauthorized for the refresh token.
C15_LogoutEndpointRevokes ==
    [][ \A a \in tokens, r \in tokens :
          ( /\ r.type = "refresh" /\ r.exp > now
            /\ logout(a, r)
            /\ last'.kind = "204" )
          => /\ is_token_blacklisted(r.jti)'
             /\ is_token_blacklisted(a.jti)'
             /\ (refresh_result(r, nextJti).kind = "Unauthorized")'
      ]_vars


---------------------------------------------------------------------------
(* Refresh and the entry gate (checked under SpecToken and SpecGate) *)

\* C16: refresh_access_token does not rotate the refresh token.  A call that
\* returns hands back the refresh token it was given with an access token
\* under an identifier no issued token has, and changes neither the ledger
\* nor the sessions; and every issued refresh token that is unexpired, not in
\* the ledger and of an active account is accepted, however often it has
\* been used before.
C16_RefreshDoesNotRotate ==
    /\ [] ( \A tk \in tokens :
              ( /\ tk.type = "refresh" /\ tk.exp > now
                /\ ~(\E b \in blacklist : b.jti = tk.jti)
                /\ users[tk.sub].is_active )
              => /\ refresh_result(tk, nextJti).kind = "ok"
                 /\ refresh_result(tk, nextJti).out.refresh_token = tk )
    /\ [][ \A tk \in Presentable :
             ( /\ last'.op = "refresh" /\ last'.kind = "ok"
               /\ refresh_access_token(tk) )
             => /\ last'.out.refresh_token = tk
                /\ last'.out.access_token.type = "access"
                /\ last'.out.access_token.sub = tk.sub
                /\ \A old \in tokens : old.jti # last'.out.access_token.jti
                /\ tokens' = tokens \cup {last'.out.access_token}
                /\ UNCHANGED <<blacklist, sessions>> ]_vars

\* the refresh token of a single login has been used twice, both times with
\* success
C16_Witness ==
    /\ last.op = "refresh"
    /\ last.kind = "ok"
    /\ Cardinality({tk \in tokens : tk.type = "refresh"}) = 1
    /\ Cardinality({tk \in tokens : tk.type = "access"}) = 3
    /\ last.out.refresh_token \in tokens


\* signed by the service, unexpired, not in the ledger, and the subject is
\* an account that exists and is active
Admissible(tk) ==
    /\ tk.sig /\ tk.exp > now
    /\ ~(\E b \in blacklist : b.jti = tk.jti)
    /\ tk.sub \in UserIds /\ users[tk.sub].is_active

\* C17: get_current_user returns an account only for an admissible token of
\* type access, and then the account it returns is the token's subject;
\* refresh_access_token issues an access token only for an admissible token
\* of type refresh.  For every other token both fail with Unauthorized, or
\* with TokenExpired when the token is past its exp, and return nothing.
C17_EntryGate ==
    \A tk \in Presentable :
       LET resolved == current_user_result(tk)
           refreshed == refresh_result(tk, nextJti)
       IN
       /\ resolved.kind = "ok" =>
             /\ Admissible(tk) /\ tk.type = "access"
             /\ resolved.out.user = tk.sub
             /\ resolved.out.row = users[tk.sub]
       /\ refreshed.kind = "ok" =>
             /\ Admissible(tk) /\ tk.type = "refresh"
             /\ refreshed.out.access_token.sub = tk.sub
       /\ ~(Admissible(tk) /\ tk.type = "access") =>
             /\ resolved.kind \in {"Unauthorized", "TokenExpired"}
             /\ resolved.kind = "TokenExpired" => tk.exp <= now
             /\ resolved.out = << >>
       /\ ~(Admissible(tk) /\ tk.type = "refresh") =>
             /\ refreshed.kind \in {"Unauthorized", "TokenExpired"}
             /\ refreshed.kind = "TokenExpired" => tk.exp <= now
             /\ refreshed.out = << >>

\* both handlers have a token of a deactivated account in front of them that
\* is signed, unexpired and unrevoked, and one of them has just refused it
C17_Witness ==
    /\ last.op \in {"current_user", "refresh"}
    /\ last.kind = "Unauthorized"
    /\ last.detail = "User not found or inactive"
    /\ \E tk \in tokens :
          /\ tk.exp > now /\ ~is_token_blacklisted(tk.jti)
          /\ ~users[tk.sub].is_active


---------------------------------------------------------------------------
(* Registration (checked under Spec) *)

---------------------------------------------------------------------------
(* Permissions on projects (checked under SpecPerm) *)

\* C19: require_permission(user, "create_project") raises
\* InsufficientPermissions for a developer and returns for a manager and for
\* an admin; require_permission(user, "create_issue") and
\* require_permission(user, "add_comment") return for every role.
C19_CreateProjectNeedsRole ==
    /\ \A u \in UserIds :
          LET user == LoadedUser(u) IN
          /\ permission_result(user, "create_project", None).kind =
                (IF users[u].role = "developer"
                 THEN "InsufficientPermissions" ELSE "ok")
          /\ users[u].role \in {"manager", "admin"} =>
                permission_result(user, "create_project", None).kind = "ok"
          /\ permission_result(user, "create_issue", None).kind = "ok"
          /\ permission_result(user, "add_comment", None).kind = "ok"
    /\ (last.op = "require_permission" /\ last.args.resource_id = None) =>
          /\ last.args.action = "create_project" =>
                (last.kind = "ok") = (users[last.args.user].role # "developer")
          /\ last.args.action \in {"create_issue", "add_comment"} =>
                last.kind = "ok"

\* a developer has been refused create_project
C19_Witness ==
    /\ last.op = "require_permission"
    /\ last.args.action = "create_project"
    /\ last.args.resource_id = None
    /\ users[last.args.user].role = "developer"
    /\ last.kind = "InsufficientPermissions"

---------------------------------------------------------------------------
(* Permissions on issues and comments (checked under SpecAccess) *)

\* the latest call was require_permission for the action with a resource id
Asked(action) ==
    /\ last.op = "require_permission"
    /\ last.args.action = action
    /\ last.args.resource_id # None

AskedBy == last.args.user

AskedRole == users[last.args.user].role

AskedId == last.args.resource_id[1]

\* C21: for an issue that exists, require_permission for edit_issue returns
\* exactly when the account is an admin or a manager, or is the issue's
\* reporter, or is its assignee; otherwise (a developer who is neither) it
\* fails with InsufficientPermissions.
C21_EditIssue ==
    (Asked("edit_issue") /\ AskedId \in DOMAIN issues) =>
        /\ last.kind \in {"ok", "InsufficientPermissions"}
        /\ last.kind = "ok" <=>
              \/ AskedRole \in {"admin", "manager"}
              \/ issues[AskedId].reporter_id = AskedBy
              \/ issues[AskedId].assignee_id = Some(AskedBy)

\* a developer edits an issue somebody else reported and assigned to them
C21_Witness ==
    /\ Asked("edit_issue") /\ AskedId \in DOMAIN issues
    /\ AskedRole = "developer"
    /\ issues[AskedId].reporter_id # AskedBy
    /\ issues[AskedId].assignee_id = Some(AskedBy)
    /\ last.kind = "ok"

\* C22: for an issue that exists, require_permission for change_assignee
\* returns exactly when the account is an admin or a manager, or is the
\* issue's reporter; a developer who is the assignee and not the reporter is
\* refused, while edit_issue on the same issue is granted to that account.
C22_ChangeAssignee ==
    (Asked("change_assignee") /\ AskedId \in DOMAIN issues) =>
        /\ last.kind \in {"ok", "InsufficientPermissions"}
        /\ last.kind = "ok" <=>
              \/ AskedRole \in {"admin", "manager"}
              \/ issues[AskedId].reporter_id = AskedBy
        /\ ( /\ AskedRole = "developer"
             /\ issues[AskedId].assignee_id = Some(AskedBy)
             /\ issues[AskedId].reporter_id # AskedBy ) =>
              /\ last.kind = "InsufficientPermissions"
              /\ permission_result(LoadedUser(AskedBy), "edit_issue",
                                   Some(AskedId)).kind = "ok"

\* the developer an issue is assigned to asks to change its assignee
C22_Witness ==
    /\ Asked("change_assignee") /\ AskedId \in DOMAIN issues
    /\ AskedRole = "developer"
    /\ issues[AskedId].assignee_id = Some(AskedBy)
    /\ issues[AskedId].reporter_id # AskedBy
    /\ last.kind = "InsufficientPermissions"

ResourceTable(action) ==
    CASE action \in {"edit_project", "archive_project"} -> projects
      [] action \in {"edit_issue", "change_assignee"} -> issues
      [] action = "edit_comment" -> comments

\* C26 (as claimed): require_permission for an action on a resource, given
\* the id of a resource that does not exist, fails with NotFound, whatever
\* the role of the account.
C26_MissingResourceIsNotFound ==
    ( /\ last.op = "require_permission"
      /\ last.args.action \in {"edit_project", "archive_project",
                               "edit_issue", "change_assignee",
                               "edit_comment"}
      /\ last.args.resource_id # None
      /\ AskedId \notin DOMAIN ResourceTable(last.args.action) )
    => last.kind = "NotFound"


---------------------------------------------------------------------------
(* Role requirements (checked under SpecPerm) *)

\* C25: require_role(user, *roles) raises InsufficientPermissions exactly
\* when the role of the user is not one of the roles given and returns
\* otherwise; the dependency built on it hands an authenticated active
\* account to the endpoint exactly when its role is one of the roles and
\* answers 403 otherwise.
C25_RequireRole ==
    /\ last.op = "require_role" =>
          /\ last.kind \in {"ok", "InsufficientPermissions"}
          /\ last.kind = "InsufficientPermissions" <=>
                users[last.args.user].role \notin last.args.roles
    /\ last.op = "role_checker" =>
          /\ last.kind \in {"200", "403"}
          /\ last.kind = "403" <=>
                users[last.args.user].role \notin last.args.roles
          /\ last.kind = "200" => last.out = <<last.args.user>>
          /\ last.kind = "403" => last.out = << >>

\* an admin meets an endpoint that requires the developer or the manager role
C25_Witness ==
    /\ last.op = "role_checker"
    /\ users[last.args.user].role = "admin"
    /\ last.args.roles = {"developer", "manager"}
    /\ users[last.args.user].is_active
    /\ last.kind = "403"


---------------------------------------------------------------------------
(* The issue workflow (checked under SpecWorkflow) *)

\* the transition table as the specification states it
AllowedTransitions(status) ==
    CASE status = "open" -> {"in_progress", "closed"}
      [] status = "in_progress" -> {"resolved", "open"}
      [] status = "resolved" -> {"closed", "reopened"}
      [] status = "closed" -> {"reopened"}
      [] status = "reopened" -> {"in_progress", "resolved"}

\* this step is an update_issue call that passed the permission check and
\* found its issue
Updating ==
    /\ last'.op = "update_issue"
    /\ last'.kind \notin {"InsufficientPermissions", "NotFound"}
    /\ last'.args.issue_id \in DOMAIN issues

Updated == last'.args.issue_id

Requested == last'.args.issue_data

\* the update asks for a status other than the one the issue has
RequestsStatusChange ==
    /\ Requested.status # None
    /\ Requested.status[1] # issues[Updated].status

\* the update is refused by the rule on closing critical issues
ClosureRefused ==
    /\ Requested.status = Some("closed")
    /\ issues[Updated].priority = "critical"
    /\ comment_count(Updated) = 0

\* C27: the status of an issue changes only along the transition table.  An
\* update_issue call asking for a different status outside the allowed set of
\* the current status fails with InvalidStateTransition and leaves the issue
\* as stored; one asking for an allowed status (open to in_progress, then
\* in_progress to resolved) succeeds and stores it; one whose status equals
\* the current status is not rejected.
C27_TransitionTable ==
    [][ /\ \A i \in DOMAIN issues :
             issues'[i].status # issues[i].status =>
                issues'[i].status \in AllowedTransitions(issues[i].status)
        /\ Updating =>
             /\ ( /\ RequestsStatusChange
                  /\ Requested.status[1] \notin
                        AllowedTransitions(issues[Updated].status) ) =>
                   /\ last'.kind = "InvalidStateTransition"
                   /\ issues' = issues
             /\ ( /\ RequestsStatusChange
                  /\ Requested.status[1] \in
                        AllowedTransitions(issues[Updated].status)
                  /\ ~ClosureRefused ) =>
                   /\ last'.kind = "ok"
                   /\ issues'[Updated].status = Requested.status[1]
             /\ ( /\ Requested.status # None
                  /\ Requested.status[1] = issues[Updated].status ) =>
                   /\ last'.kind = "ok"
                   /\ issues'[Updated].status = issues[Updated].status
      ]_vars

\* an issue went from open to in_progress and is resolved by the latest call
C27_Witness ==
    /\ last.op = "update_issue" /\ last.kind = "ok"
    /\ last.args.issue_data.status = Some("resolved")
    /\ last.args.issue_id \in DOMAIN issues
    /\ issues[last.args.issue_id].status = "resolved"
    /\ issues[last.args.issue_id].resolved_at # None
    /\ issues[last.args.issue_id].closed_at = None

\* C28: update_issue moving an issue of critical priority to closed fails
\* with InvalidStateTransition while the issue has no comment, and the issue
\* stays as stored; with at least one comment and an allowed transition it
\* succeeds.  An issue of another priority, and a critical issue moving to a
\* status other than closed, are not refused for lack of comments.
C28_CriticalClosure ==
    [][ (Updating /\ RequestsStatusChange) =>
          LET issue == issues[Updated]
              new_status == Requested.status[1]
              allowed == new_status \in AllowedTransitions(issue.status)
          IN
          /\ ( /\ new_status = "closed"
               /\ issue.priority = "critical"
               /\ comment_count(Updated) = 0 ) =>
                /\ last'.kind = "InvalidStateTransition"
                /\ issues' = issues
          /\ ( /\ new_status = "closed"
               /\ issue.priority = "critical"
               /\ comment_count(Updated) >= 1
               /\ allowed ) =>
                /\ last'.kind = "ok"
                /\ issues'[Updated].status = "closed"
          /\ ( /\ allowed
               /\ \/ issue.priority # "critical"
                  \/ new_status # "closed" ) =>
                /\ last'.kind = "ok"
                /\ issues'[Updated].status = new_status
      ]_vars

\* a critical issue with a comment is closed by the latest call
C28_Witness ==
    /\ last.op = "update_issue" /\ last.kind = "ok"
    /\ last.args.issue_data = [status |-> Some("closed"), priority |-> None,
                               assignee_id |-> None]
    /\ last.args.issue_id \in DOMAIN issues
    /\ issues[last.args.issue_id].priority = "critical"
    /\ issues[last.args.issue_id].status = "closed"
    /\ comment_count(last.args.issue_id) >= 1


---------------------------------------------------------------------------
(* Inactive accounts at login (checked under Spec) *)

\* C29 (as claimed): login_user with the correct password for an account
\* whose is_active flag is false (and that is not locked) fails with
\* Unauthorized, returns no tokens and creates no session.
C29_InactiveLoginUnauthorized ==
    [][ ( /\ last'.op = "login"
          /\ now' = now
          /\ Len(last'.pre) = 1
          /\ ~last'.pre[1].is_active
          /\ \/ last'.pre[1].locked_until = None
             \/ last'.pre[1].locked_until[1] <= now
          /\ verify_password(last'.args.password, last'.pre[1].password_hash) )
        => /\ last'.kind = "Unauthorized"
           /\ last'.out = << >>
           /\ tokens' = tokens
           /\ sessions' = sessions
      ]_vars


---------------------------------------------------------------------------
(* The response of a protected endpoint (checked under SpecEntry) *)

\* C30 (as claimed): a protected endpoint called with an expired access
\* token answers 401 with the machine-readable code TOKEN_EXPIRED, which the
\* answer for a revoked, malformed or wrong-class token (code UNAUTHORIZED)
\* does not carry.
C30_ExpiredIsDistinguished ==
    [][ ( /\ last'.op = "GET /auth/me"
          /\ now' = now
          /\ last'.args.sig
          /\ last'.args.type = "access"
          /\ last'.args.exp <= now )
        => /\ last'.kind = "401"
           /\ last'.out.code = Some("TOKEN_EXPIRED")
      ]_vars


\* C39 (as claimed): in every state reached by create_issue, create_comment
\* and update_issue, no issue has priority critical and status closed while
\* it has no comment.
C39_NoSilentCriticalClosure ==
    \A i \in DOMAIN issues :
        (issues[i].priority = "critical" /\ issues[i].status = "closed")
            => comment_count(i) >= 1


---------------------------------------------------------------------------
(* Reassignment through the update endpoint (checked under SpecAssign) *)

\* C40 (as claimed): the assignee_id of an issue is changed through
\* PATCH /issues/{id} only by an account for which the change_assignee rule
\* holds, an admin, a manager or the reporter of the issue; a developer who
\* is the assignee and not the reporter cannot change it.
C40_AssigneeChangeNeedsRule ==
    [][ \A i \in DOMAIN issues :
          issues'[i].assignee_id # issues[i].assignee_id =>
             /\ last'.op = "update_issue"
             /\ \/ users[last'.args.user].role \in {"admin", "manager"}
                \/ issues[i].reporter_id = last'.args.user
      ]_vars


---------------------------------------------------------------------------
(* The ledger's tags and the atomicity of logout (checked under SpecGate) *)

\* C36 (as claimed): every ledger entry carries the class of the token whose
\* identifier it records: an entry tagged access holds the identifier of a
\* token issued as an access token, an entry tagged refresh that of a token
\* issued as a refresh token, whichever valid tokens logout_user was given
\* in whichever argument position.
C36_LedgerTagsAreTrue ==
    \A b \in blacklist : \A tk \in tokens :
        tk.jti = b.jti => tk.type = b.token_type

\* the token does not decode at the current time
Undecodable(tk) == ~tk.sig \/ tk.exp <= now

\* the error decode_token reports for a token that does not decode
DecodeError(tk) == IF ~tk.sig THEN "Unauthorized" ELSE "TokenExpired"

\* C37: logout_user is all-or-nothing.  When the access token or the refresh
\* token does not decode (bad signature, expired), the call fails with the
\* error of the first one that does not and the ledger is as before; and
\* whatever the outcome, the identifiers a call adds to the ledger are either
\* none or those of both of its tokens.
C37_LogoutAllOrNothing ==
    [][ last'.op = "logout" =>
          /\ last'.kind # "ok" => blacklist' = blacklist
          /\ blacklist' # blacklist =>
                \E a \in Presentable, r \in Presentable :
                   /\ a.jti # r.jti
                   /\ {b.jti : b \in blacklist' \ blacklist} = {a.jti, r.jti}
                   /\ ~Undecodable(a) /\ ~Undecodable(r)
          /\ \A a \in Presentable, r \in Presentable :
                ( /\ Undecodable(a) \/ Undecodable(r)
                  /\ logout_user(a, r) ) =>
                   /\ last'.kind =
                         DecodeError(IF Undecodable(a) THEN a ELSE r)
                   /\ blacklist' = blacklist
      ]_vars

\* a logout failed on an expired token while an unexpired access token of
\* the same account is outstanding, and no identifier is in the ledger
C37_Witness ==
    /\ last.op = "logout" /\ last.kind = "TokenExpired"
    /\ blacklist = {}
    /\ \E a \in tokens, r \in tokens :
          /\ a.type = "access" /\ r.type = "refresh" /\ a.sub = r.sub
          /\ a.exp > now /\ r.exp <= now


\* C34: logout_all_devices revokes refresh tokens only.  When it returns,
\* every unexpired access token of the account that was accepted before is
\* still accepted by get_current_user, while refresh_access_token refuses
\* the refresh token of every session of the account (with Unauthorized
\* when it has not expired); and the identifier of
\* an access token enters the ledger only by a logout_user call.
C34_LogoutAllKeepsAccess ==
    [][ /\ last'.op = "logout_all" =>
             \A id \in UserIds :
                (last'.kind = "ok" /\ logout_all_devices(id)) =>
                   /\ \A a \in tokens :
                         ( /\ a.type = "access" /\ a.sub = id
                           /\ a.exp > now
                           /\ ~is_token_blacklisted(a.jti)
                           /\ users[id].is_active ) =>
                            (current_user_result(a).kind = "ok")'
                   /\ \A r \in tokens :
                         ( /\ r.type = "refresh"
                           /\ \E x \in SessionsOf(id) :
                                 x.refresh_token_jti = r.jti ) =>
                            /\ (refresh_result(r, nextJti).kind # "ok")'
                            /\ r.exp > now =>
                                  (refresh_result(r, nextJti).kind =
                                      "Unauthorized")'
        /\ \A a \in tokens :
              ( /\ a.type = "access"
                /\ ~is_token_blacklisted(a.jti)
                /\ is_token_blacklisted(a.jti)' ) => last'.op = "logout"
      ]_vars

\* after a logout-all that returned, an access token of the account is
\* accepted although the refresh token of the same login is revoked
C34_Witness ==
    /\ last.op = "logout_all" /\ last.kind = "ok"
    /\ \E a \in tokens, r \in tokens :
          /\ a.type = "access" /\ r.type = "refresh" /\ a.sub = r.sub
          /\ a.exp > now /\ r.exp > now
          /\ is_token_blacklisted(r.jti)
          /\ current_user_result(a).kind = "ok"
          /\ refresh_result(r, nextJti).kind = "Unauthorized"


---------------------------------------------------------------------------
(* The role that authorizes (checked under SpecRole) *)

\* the token with another role claim, validly signed
WithRoleClaim(tk, role) == [tk EXCEPT !.role = role]

\* C35: authorization uses the stored role, never the role claim of a token.
\* get_current_user returns the account row as stored, the access token
\* refresh_access_token mints carries the stored role of the account, and
\* for every issued token the outcome of get_current_user, the permission
\* decision for the account it returns and the role in the access token a
\* refresh mints are the same whatever role claim the token carries.
C35_StoredRoleAuthorizes ==
    /\ (last.op = "current_user" /\ last.kind = "ok") =>
          last.out.row = users[last.out.user]
    /\ (last.op = "refresh" /\ last.kind = "ok") =>
          last.out.access_token.role =
             users[last.out.access_token.sub].role
    /\ \A tk \in tokens, role \in {"developer", "manager", "admin"} :
          LET other == WithRoleClaim(tk, role)
              user == current_user_result(tk)
              refreshed == refresh_result(tk, nextJti)
          IN
          /\ current_user_result(other) = user
          /\ user.kind = "ok" =>
                /\ user.out.row.role = users[tk.sub].role
                /\ permission_result(user.out, "create_project", None).kind
                      = "ok"
                   <=> users[tk.sub].role \in {"manager", "admin"}
          /\ refresh_result(other, nextJti).kind = refreshed.kind
          /\ refreshed.kind = "ok" =>
                /\ refresh_result(other, nextJti).out.access_token
                      = refreshed.out.access_token
                /\ refreshed.out.access_token.role = users[tk.sub].role

\* a refresh token issued to a manager was presented after the account
\* became a developer: the access token minted carries the developer role
C35_Witness ==
    /\ last.op = "refresh" /\ last.kind = "ok"
    /\ last.out.refresh_token.role = "manager"
    /\ users[last.out.refresh_token.sub].role = "developer"
    /\ last.out.access_token.role = "developer"


---------------------------------------------------------------------------
(* The counter after a lock has run out (checked under Spec) *)

\* the account an attempt is made on holds a lock that is no longer in force
\* and a counter at or above the threshold
LockRanOut(user, t) ==
    /\ user.failed_login_attempts >= max_login_attempts
    /\ Len(user.locked_until) = 1
    /\ user.locked_until[1] <= t

\* C31: the failed-attempt counter of an account goes down only in a
\* successful login of that account; the passing of time never lowers it.
\* A wrong password on an account whose counter is at the threshold and
\* whose lock has run out raises the counter above the threshold, locks the
\* account again until now + lockout duration, and fails with Forbidden.
C31_CounterOutlivesLock ==
    [][ /\ \A i \in DOMAIN users :
             users'[i].failed_login_attempts < users[i].failed_login_attempts
             => /\ last'.op = "login"
                /\ last'.kind = "ok"
                /\ last'.out.user = i
                /\ users'[i].failed_login_attempts = 0
        /\ Tick => users' = users
        /\ \A e \in Emails, p \in Passwords :
             ( /\ login_user(e, p)
               /\ UserByEmail(e) # {}
               /\ LET u == users[CHOOSE i \in UserByEmail(e) : TRUE] IN
                  LockRanOut(u, now) /\ ~verify_password(p, u.password_hash) )
             => LET i == CHOOSE i \in UserByEmail(e) : TRUE IN
                /\ users'[i].failed_login_attempts =
                       users[i].failed_login_attempts + 1
                /\ users'[i].failed_login_attempts > max_login_attempts
                /\ users'[i].locked_until = Some(now + account_lockout_duration)
                /\ last'.kind = "Forbidden" ]_vars

\* a wrong password was given after the lock ran out, and the account is
\* locked again with a counter above the threshold
C31_Witness ==
    /\ LoginRead
    /\ LockRanOut(LoginBefore, last.at[1])
    /\ LoginWrongPassword
    /\ last.kind = "Forbidden"
    /\ LoginNow.failed_login_attempts > max_login_attempts
    /\ LoginNow.locked_until = Some(last.at[1] + account_lockout_duration)


---------------------------------------------------------------------------
(* Requests that overlap.  Every request has its own database session; a   *)
(* handler runs from one await to the next as one step, and the rows a     *)
(* session has loaded are not read again before its commit.                *)

\* "await self.db.commit()" for a loaded account: the UPDATE sets the
\* columns whose value differs from the value the session loaded
flush(row, loaded, edited) ==
    [row EXCEPT
       !.failed_login_attempts =
           IF edited.failed_login_attempts # loaded.failed_login_attempts
           THEN edited.failed_login_attempts ELSE @,
       !.locked_until =
           IF edited.locked_until # loaded.locked_until
           THEN edited.locked_until ELSE @,
       !.last_login =
           IF edited.last_login # loaded.last_login
           THEN edited.last_login ELSE @]

\* login_user from its call to its commit: the account is selected, the lock
\* and the password are checked against the loaded row, and the changes are
\* made to the loaded row
login_user_select(t, email, password) ==
    LET args == [email |-> email, password |-> password] IN
    /\ tasks[t].pc = "idle"
    /\ UNCHANGED <<now, users, sessions, blacklist, tokens>>
    /\ UNCHANGED tracker
    /\ IF UserByEmail(email) = {}
       THEN /\ last' = Result("login", "Unauthorized", "Invalid credentials",
                              args, Some(now), None, << >>)
            /\ UNCHANGED <<nextJti, streak, tasks>>
       ELSE
       LET id == CHOOSE i \in UserByEmail(email) : TRUE
           user == users[id]
       IN
       IF IsLocked(user, now)
       THEN /\ last' = Result("login", "Forbidden", "Account is locked",
                              args, Some(now), Some(user), << >>)
            /\ UNCHANGED <<nextJti, streak, tasks>>
       ELSE IF ~verify_password(password, user.password_hash)
       THEN /\ tasks' = [tasks EXCEPT ![t] =
                           [pc |-> "login_failed", args |-> args,
                            loaded |-> Some(user),
                            edited |-> Some(RecordFailedAttempt(user, now)),
                            out |-> << >>]]
            /\ streak' = [streak EXCEPT ![email] = @ + 1]
            /\ UNCHANGED <<nextJti, last>>
       ELSE IF ~user.is_active
       THEN /\ last' = Result("login", "Forbidden", "Account is inactive",
                              args, Some(now), Some(user), << >>)
            /\ UNCHANGED <<nextJti, streak, tasks>>
       ELSE
       LET access_jti == nextJti
           refresh_jti == nextJti + 1
       IN
            /\ nextJti + 1 <= MaxJti
            /\ nextJti' = nextJti + 2
            /\ tasks' = [tasks EXCEPT ![t] =
                           [pc |-> "login_ok", args |-> args,
                            loaded |-> Some(user),
                            edited |-> Some(RecordSuccess(user, now)),
                            out |-> [user |-> id,
                                     access_token |->
                                        create_access_token(id, user.role, access_jti, now),
                                     refresh_token |->
                                        create_refresh_token(id, user.role, refresh_jti, now),
                                     session |->
                                        LoginSession(id, access_jti, refresh_jti, now)]]]
            /\ UNCHANGED <<streak, last>>

\* login_user resumed at "await self.db.commit()": the changes of the
\* session are written and the call answers
login_user_commit(t) ==
    LET task == tasks[t]
        id == CHOOSE i \in UserByEmail(task.args.email) : TRUE
        loaded == task.loaded[1]
    IN
    /\ task.pc \in {"login_failed", "login_ok"}
    /\ users' = [users EXCEPT ![id] = flush(users[id], loaded, task.edited[1])]
    /\ tasks' = [tasks EXCEPT ![t] = IdleTask]
    /\ UNCHANGED <<now, blacklist, nextJti>>
    /\ UNCHANGED tracker
    /\ IF task.pc = "login_failed"
       THEN /\ last' = Result("login", FailedAttemptKind(loaded),
                              "Invalid credentials", task.args, Some(now),
                              Some(loaded), << >>)
            /\ UNCHANGED <<sessions, tokens, streak>>
       ELSE /\ sessions' = sessions \cup {task.out.session}
            /\ tokens' = tokens \cup {task.out.access_token, task.out.refresh_token}
            /\ last' = Result("login", "ok", "", task.args, Some(now),
                              Some(loaded),
                              [user |-> id,
                               access_token |-> task.out.access_token,
                               refresh_token |-> task.out.refresh_token])
            /\ streak' = [streak EXCEPT ![task.args.email] = 0]

\* the account the overlapping logins are made on
RaceEmail == "a@x"

RaceUserId == 1

InitRace == Fresh({<<User("alice", RaceEmail, hash_password("s1"), "developer")>>})

(* Overlapping logins with a wrong password *)
NextLockRace ==
    \/ Tick
    \/ \E t \in Tasks : login_user_select(t, RaceEmail, "s2")
    \/ \E t \in Tasks : login_user_commit(t)

SpecLockRace == InitRace /\ [][NextLockRace]_vars

(* Overlapping logins with a wrong and with the right password *)
NextLoginRace ==
    \/ Tick
    \/ \E t \in Tasks, p \in Passwords : login_user_select(t, RaceEmail, p)
    \/ \E t \in Tasks : login_user_commit(t)

SpecLoginRace == InitRace /\ [][NextLoginRace]_vars

---------------------------------------------------------------------------
(* Lockout under overlapping logins (checked under SpecLockRace) *)

\* C32: with MaxTasks logins in progress at a time on one account, each
\* with a wrong password, the account has been locked once more than
\* max_login_attempts + (MaxTasks - 1) wrong passwords have been verified.
C32_LockAfterBoundedAttempts ==
    streak[RaceEmail] > max_login_attempts + (MaxTasks - 1)
    => users[RaceUserId].locked_until # None

---------------------------------------------------------------------------
(* The counter and the lock (checked under SpecLoginRace) *)

\* C33: in every committed state, whatever the interleaving of failed and
\* successful logins on the account, a counter at or above the threshold
\* comes with a lock time, and the counter is not negative.
C33_ThresholdImpliesLock ==
    \A i \in UserIds :
        /\ users[i].failed_login_attempts >= 0
        /\ users[i].failed_login_attempts >= max_login_attempts
           => users[i].locked_until # None


---------------------------------------------------------------------------
(* Overlapping registrations.  register_user awaits the username lookup,   *)
(* the email lookup and the commit; users.username and users.email are     *)
(* unique, so the INSERT of a commit fails when another request has        *)
(* committed the same value in between.                                    *)

\* register_user from its call to the answer of the username lookup
register_user_select_username(t, user_data) ==
    /\ tasks[t].pc = "idle"
    /\ UNCHANGED <<now, users, sessions, blacklist, tokens, nextJti, streak>>
    /\ UNCHANGED tracker
    /\ IF UserByUsername(user_data.username) # {}
       THEN /\ last' = Result("register", "Conflict", "Username already exists",
                              user_data, None, None, << >>)
            /\ UNCHANGED tasks
       ELSE /\ tasks' = [tasks EXCEPT ![t] =
                           [IdleTask EXCEPT !.pc = "register_email",
                                            !.args = user_data]]
            /\ UNCHANGED last

\* register_user resumed at the answer of the email lookup
register_user_select_email(t) ==
    LET user_data == tasks[t].args IN
    /\ tasks[t].pc = "register_email"
    /\ UNCHANGED <<now, users, sessions, blacklist, tokens, nextJti, streak>>
    /\ UNCHANGED tracker
    /\ IF UserByEmail(user_data.email) # {}
       THEN /\ last' = Result("register", "Conflict", "Email already exists",
                              user_data, None, None, << >>)
            /\ tasks' = [tasks EXCEPT ![t] = IdleTask]
       ELSE /\ tasks' = [tasks EXCEPT ![t].pc = "register_commit"]
            /\ UNCHANGED last

\* register_user resumed at "await self.db.commit()": the INSERT violates a
\* unique constraint (sqlalchemy.exc.IntegrityError, which the handler does
\* not catch) or adds the row
register_user_commit(t) ==
    LET user_data == tasks[t].args IN
    /\ tasks[t].pc = "register_commit"
    /\ tasks' = [tasks EXCEPT ![t] = IdleTask]
    /\ UNCHANGED <<now, sessions, blacklist, tokens, nextJti, streak>>
    /\ UNCHANGED tracker
    /\ IF UserByUsername(user_data.username) # {} \/ UserByEmail(user_data.email) # {}
       THEN /\ last' = Result("register", "IntegrityError", "",
                              user_data, None, None, << >>)
            /\ UNCHANGED users
       ELSE /\ users' = Append(users, User(user_data.username, user_data.email,
                                hash_password(user_data.password), user_data.role))
            /\ last' = Result("register", "ok", "", user_data, None, None,
                              <<Len(users) + 1>>)

InitRegisterRace == Fresh({<< >>})

NextRegisterRace ==
    \/ \E t \in Tasks, r \in Registrations : register_user_select_username(t, r)
    \/ \E t \in Tasks : register_user_select_email(t)
    \/ \E t \in Tasks : register_user_commit(t)

SpecRegisterRace == InitRegisterRace /\ [][NextRegisterRace]_vars

---------------------------------------------------------------------------
(* Registrations of one name (checked under SpecRegisterRace) *)

\* C38: of the registrations that overlap, no two with the same username or
\* the same email succeed: no username and no email is held by two accounts,
\* and a registration whose username or email is taken when it ends fails
\* with Conflict.
C38_OneAccountLoserConflicts ==
    /\ \A i, j \in UserIds :
         (users[i].username = users[j].username \/ users[i].email = users[j].email)
         => i = j
    /\ (last.op = "register" /\ last.kind # "ok") => last.kind = "Conflict"

====
